---- MODULE Spec2Model ----
(***************************************************************************)
(* Model of the mowen-mcp-server document-model conversion engine:         *)
(* ConvertParagraphsToNoteAtom and convertTextsToContent, which map the    *)
(* author-facing Paragraph / TextNode values to the backend's NoteAtom     *)
(* tree.                                                                   *)
(*                                                                         *)
(* Go values are modelled as follows.                                      *)
(*   slice  : [nil : BOOLEAN, items : Seq]   (nil slice vs. empty slice)   *)
(*   map    : [nil : BOOLEAN, kv : function] (nil map vs. empty map)       *)
(*   *T     : a record with a nil flag                                     *)
(*   string : a TLA+ string, "" being the zero value                       *)
(***************************************************************************)
EXTENDS Integers, Sequences, FiniteSets, TLC

VARIABLES
    pc,          \* position of the caller: which function is to be / was called
    paragraphs,  \* argument of ConvertParagraphsToNoteAtom
    texts,       \* argument of a direct convertTextsToContent call
    doc,         \* value returned by ConvertParagraphsToNoteAtom
    content,     \* value returned by the direct convertTextsToContent call
    client,      \* the one MowenClient of the process: apiKey, baseURL
    inv          \* the tool invocations: inputs, position, requests sent, outcome

vars == <<pc, paragraphs, texts, doc, content, client, inv>>

convVars == <<pc, paragraphs, texts, doc, content>>

----------------------------------------------------------------------------
(* Bounds of the explored inputs.                                          *)

\* Longest run list handed directly to convertTextsToContent.
MaxTexts == 2

\* Longest paragraph list handed to ConvertParagraphsToNoteAtom.
MaxParagraphs == 3

\* Number of tool invocations that may run concurrently on the one client.
NumInvocations == 2

----------------------------------------------------------------------------
(* Go slices and maps.                                                     *)

NilSlice == [nil |-> TRUE, items |-> <<>>]

MakeSlice == [nil |-> FALSE, items |-> <<>>]

append(s, x) == [nil |-> FALSE, items |-> Append(s.items, x)]

EmptyKV == [k \in {} |-> ""]

NilMap == [nil |-> TRUE, kv |-> EmptyKV]

MapLit(kv) == [nil |-> FALSE, kv |-> kv]

MapSet(m, k, v) ==
    [nil |-> FALSE,
     kv  |-> [x \in (DOMAIN m.kv) \cup {k} |-> IF x = k THEN v ELSE m.kv[x]]]

----------------------------------------------------------------------------
(* NoteAtom: a struct literal leaves the fields it does not name at their  *)
(* zero value ("" / nil slice / nil map).                                  *)

NoteAtom(type, text, cont, mks, attrs) ==
    [Type |-> type, Text |-> text, Content |-> cont, Marks |-> mks, Attrs |-> attrs]

ZeroAtom == NoteAtom("", "", NilSlice, NilSlice, NilMap)

----------------------------------------------------------------------------
(* convertTextsToContent                                                   *)

marksHighlightFirst(text) ==
    LET m0 == NilSlice
        m1 == IF text.Highlight
              THEN append(m0, NoteAtom("highlight", "", NilSlice, NilSlice, NilMap))
              ELSE m0
        m2 == IF text.Bold
              THEN append(m1, NoteAtom("bold", "", NilSlice, NilSlice, NilMap))
              ELSE m1
        m3 == IF text.Link # ""
              THEN append(m2, NoteAtom("link", "", NilSlice, NilSlice,
                                       MapLit("href" :> text.Link)))
              ELSE m2
    IN  m3

marks(text) ==
    LET m0 == NilSlice
        m1 == IF text.Bold
              THEN append(m0, NoteAtom("bold", "", NilSlice, NilSlice, NilMap))
              ELSE m0
        m2 == IF text.Highlight
              THEN append(m1, NoteAtom("highlight", "", NilSlice, NilSlice, NilMap))
              ELSE m1
        m3 == IF text.Link # ""
              THEN append(m2, NoteAtom("link", "", NilSlice, NilSlice,
                                       MapLit("href" :> text.Link)))
              ELSE m2
    IN  m3

\* Variant: marks starts as an empty slice and is always attached.
textAtomAlwaysMarks(text) ==
    LET atom == NoteAtom("text", text.Text, NilSlice, NilSlice, NilMap)
        mks  == marks(text)
    IN  [atom EXCEPT !.Marks = [nil |-> FALSE, items |-> mks.items]]

textAtom(text) ==
    LET atom == NoteAtom("text", text.Text, NilSlice, NilSlice, NilMap)
        mks  == marks(text)
    IN  IF Len(mks.items) > 0 THEN [atom EXCEPT !.Marks = mks] ELSE atom

\* Variant: runs with an empty text are left out.
RECURSIVE TextsLoopSkipEmpty(_, _, _)
TextsLoopSkipEmpty(ts, i, acc) ==
    IF i > Len(ts.items) THEN acc
    ELSE IF ts.items[i].Text = "" THEN TextsLoopSkipEmpty(ts, i + 1, acc)
    ELSE TextsLoopSkipEmpty(ts, i + 1, append(acc, textAtom(ts.items[i])))

RECURSIVE TextsLoop(_, _, _)
TextsLoop(ts, i, acc) ==
    IF i > Len(ts.items) THEN acc
    ELSE TextsLoop(ts, i + 1, append(acc, textAtom(ts.items[i])))

convertTextsToContent(ts) == TextsLoop(ts, 1, MakeSlice)

----------------------------------------------------------------------------
(* ConvertParagraphsToNoteAtom                                             *)

\* Variant: a quote without runs loses its blockquote attribute.
quoteParaPlainWhenEmpty(para) ==
    IF Len(para.Texts.items) = 0
    THEN NoteAtom("paragraph", "", convertTextsToContent(para.Texts), NilSlice, NilMap)
    ELSE NoteAtom("paragraph", "", convertTextsToContent(para.Texts), NilSlice,
                  MapLit("blockquote" :> "true"))

\* Variant: a quote is emitted under a type tag of its own.
quoteParaBlockquoteType(para) ==
    NoteAtom("blockquote", "", convertTextsToContent(para.Texts), NilSlice,
             MapLit("blockquote" :> "true"))

quotePara(para) ==
    NoteAtom("paragraph", "", convertTextsToContent(para.Texts), NilSlice,
             MapLit("blockquote" :> "true"))

\* Variant: a note reference also converts the runs it carries.
noteParaWithContent(para) ==
    NoteAtom("note", "", convertTextsToContent(para.Texts), NilSlice,
             MapLit("uuid" :> para.NoteID))

notePara(para) ==
    NoteAtom("note", "", NilSlice, NilSlice, MapLit("uuid" :> para.NoteID))

\* Variant: a metadata key that is already seeded is not overwritten.
RECURSIVE MergeMetadataKeepSeeded(_, _, _)
MergeMetadataKeepSeeded(attrs, metadata, keys) ==
    IF keys = {} THEN attrs
    ELSE LET k == CHOOSE x \in keys : TRUE
         IN  IF k \in DOMAIN attrs.kv
             THEN MergeMetadataKeepSeeded(attrs, metadata, keys \ {k})
             ELSE MergeMetadataKeepSeeded(MapSet(attrs, k, metadata.kv[k]),
                                          metadata, keys \ {k})

\* for k, v := range para.File.Metadata { fileAtom.Attrs[k] = v }
\* Go visits the keys of a map in an unspecified order; the keys are
\* distinct, so the writes commute and any order gives the same map.
RECURSIVE MergeMetadata(_, _, _)
MergeMetadata(attrs, metadata, keys) ==
    IF keys = {} THEN attrs
    ELSE LET k == CHOOSE x \in keys : TRUE
         IN  MergeMetadata(MapSet(attrs, k, metadata.kv[k]), metadata, keys \ {k})

\* Variant: the file atom also carries the source locator as its text.
fileAtomWithText(para) ==
    LET seeded == MapLit(("uuid" :> para.File.SourcePath)
                         @@ ("sourceType" :> para.File.SourceType))
    IN  NoteAtom(para.File.FileType, para.File.SourcePath, NilSlice, NilSlice,
                 MergeMetadata(seeded, para.File.Metadata,
                               DOMAIN para.File.Metadata.kv))

fileAtom(para) ==
    LET seeded == MapLit(("uuid" :> para.File.SourcePath)
                         @@ ("sourceType" :> para.File.SourceType))
    IN  NoteAtom(para.File.FileType, "", NilSlice, NilSlice,
                 MergeMetadata(seeded, para.File.Metadata,
                               DOMAIN para.File.Metadata.kv))

normalPara(para) ==
    NoteAtom("paragraph", "", convertTextsToContent(para.Texts), NilSlice, NilMap)

\* Variant: a file paragraph without a file still appends an (empty) atom.
ConvertParagraphNilFileAtom(d, para) ==
    CASE para.Type = "quote" -> [d EXCEPT !.Content = append(d.Content, quotePara(para))]
      [] para.Type = "note"  -> [d EXCEPT !.Content = append(d.Content, notePara(para))]
      [] para.Type = "file"  ->
            IF ~para.File.nil
            THEN [d EXCEPT !.Content = append(d.Content, fileAtom(para))]
            ELSE [d EXCEPT !.Content = append(d.Content, ZeroAtom)]
      [] OTHER -> [d EXCEPT !.Content = append(d.Content, normalPara(para))]

\* Variant: only the empty kind is a plain paragraph, other kinds are dropped.
ConvertParagraphStrictKinds(d, para) ==
    CASE para.Type = "quote" -> [d EXCEPT !.Content = append(d.Content, quotePara(para))]
      [] para.Type = "note"  -> [d EXCEPT !.Content = append(d.Content, notePara(para))]
      [] para.Type = "file"  ->
            IF ~para.File.nil
            THEN [d EXCEPT !.Content = append(d.Content, fileAtom(para))]
            ELSE d
      [] para.Type = ""      -> [d EXCEPT !.Content = append(d.Content, normalPara(para))]
      [] OTHER -> d

\* One iteration of the loop: the switch on para.Type.
ConvertParagraph(d, para) ==
    CASE para.Type = "quote" -> [d EXCEPT !.Content = append(d.Content, quotePara(para))]
      [] para.Type = "note"  -> [d EXCEPT !.Content = append(d.Content, notePara(para))]
      [] para.Type = "file"  ->
            IF ~para.File.nil
            THEN [d EXCEPT !.Content = append(d.Content, fileAtom(para))]
            ELSE d
      [] OTHER -> [d EXCEPT !.Content = append(d.Content, normalPara(para))]

\* Variant: the loop stops one paragraph early.
RECURSIVE ParagraphsLoopStopsEarly(_, _, _)
ParagraphsLoopStopsEarly(ps, i, d) ==
    IF i >= Len(ps) THEN d
    ELSE ParagraphsLoopStopsEarly(ps, i + 1, ConvertParagraph(d, ps[i]))

RECURSIVE ParagraphsLoop(_, _, _)
ParagraphsLoop(ps, i, d) ==
    IF i > Len(ps) THEN d
    ELSE ParagraphsLoop(ps, i + 1, ConvertParagraph(d, ps[i]))

ConvertParagraphsToNoteAtom(ps) ==
    ParagraphsLoop(ps, 1, NoteAtom("doc", "", MakeSlice, NilSlice, NilMap))

----------------------------------------------------------------------------
(* Inputs.                                                                 *)

TextNode(text, bold, highlight, link) ==
    [Text |-> text, Bold |-> bold, Highlight |-> highlight, Link |-> link]

TextValues == {"", "hello"}

LinkValues == {"", "https://x"}

TextNodes ==
    {TextNode(t, b, h, l) : t \in TextValues, b \in BOOLEAN, h \in BOOLEAN, l \in LinkValues}

SeqsUpTo(S, n) == UNION {[1..k -> S] : k \in 0..n}

\* A []TextNode argument: the nil slice, or a slice of 0..n runs.
TextSlices(n) == {NilSlice} \cup {[nil |-> FALSE, items |-> s] : s \in SeqsUpTo(TextNodes, n)}

FileNode(fileType, sourceType, sourcePath, metadata) ==
    [nil |-> FALSE, FileType |-> fileType, SourceType |-> sourceType,
     SourcePath |-> sourcePath, Metadata |-> metadata]

NilFile ==
    [nil |-> TRUE, FileType |-> "", SourceType |-> "", SourcePath |-> "",
     Metadata |-> NilMap]

Paragraph(type, ts, noteID, file) ==
    [Type |-> type, Texts |-> ts, NoteID |-> noteID, File |-> file]

ParagraphTypes == {"", "quote", "note", "file", "plain"}

\* What a paragraph carries besides its kind: <<Texts, NoteID, File>>.
\* Every kind is combined with every payload, so that each kind also occurs
\* with the fields it does not use.
ParagraphPayloads ==
    { \* nothing at all
      <<NilSlice, "", NilFile>>,
      \* two styled runs, a note id and an image with plain metadata
      <<[nil |-> FALSE,
         items |-> <<TextNode("hello", FALSE, FALSE, ""),
                     TextNode("", TRUE, TRUE, "https://x")>>],
        "abc123",
        FileNode("image", "url", "file-xyz", MapLit("alt" :> "cat"))>>,
      \* an empty run list and a pdf whose metadata collides with the seeded keys
      <<MakeSlice, "abc123",
        FileNode("pdf", "local", "/tmp/a.pdf",
                 MapLit(("uuid" :> "meta-uuid") @@ ("sourceType" :> "meta-src")
                        @@ ("align" :> "center")))>>,
      \* one plain run and a file of a kind outside image/audio/pdf, nil metadata
      <<[nil |-> FALSE, items |-> <<TextNode("quoted", FALSE, FALSE, "")>>],
        "n2",
        FileNode("video", "url", "file-v", NilMap)>>,
      \* one bold run, no note id and an audio file with an empty metadata map
      <<[nil |-> FALSE, items |-> <<TextNode("b", TRUE, FALSE, "")>>],
        "",
        FileNode("audio", "local", "/tmp/a.mp3", MapLit(EmptyKV))>> }

ParagraphValues ==
    {Paragraph(t, pl[1], pl[2], pl[3]) : t \in ParagraphTypes, pl \in ParagraphPayloads}

----------------------------------------------------------------------------
(* The client and the invocation slots.                                    *)

MowenAPIBaseURL == "https://open.mowen.cn"

\* The value of MOWEN_API_KEY when the process starts (it must be non-empty).
EnvAPIKey == "key-0"

\* The http.Client is held by its one setting, the timeout in seconds.
NewMowenClient ==
    [apiKey |-> EnvAPIKey, httpClient |-> [Timeout |-> 30], baseURL |-> MowenAPIBaseURL]

Invocations == 1..NumInvocations

NilError == [nil |-> TRUE, msg |-> <<>>]

NilResult == [nil |-> TRUE, text |-> <<>>]

\* A slot in which no tool has been invoked.
NoInvocation ==
    [pc      |-> "unused",
     tool    |-> "",
     raw     |-> [ok |-> FALSE, args |-> <<>>],
     backend |-> <<>>,
     file    |-> "",
     args    |-> <<>>,
     sent    |-> <<>>,
     upload  |-> <<>>,
     ctx     |-> "live",
     afterReset |-> FALSE,
     clientErr |-> NilError,
     result  |-> NilResult,
     err     |-> NilError]

----------------------------------------------------------------------------
(* The callers: each behaviour fixes one argument and calls one function.  *)

Init ==
    /\ client = NewMowenClient
    /\ inv = [i \in Invocations |-> NoInvocation]
    /\ doc = ZeroAtom
    /\ content = NilSlice
    /\ \/ /\ pc = "call_ConvertParagraphsToNoteAtom"
          /\ paragraphs \in SeqsUpTo(ParagraphValues, MaxParagraphs)
          /\ texts = NilSlice
       \/ /\ pc = "call_convertTextsToContent"
          /\ paragraphs = <<>>
          /\ texts \in TextSlices(MaxTexts)

CallConvertParagraphsToNoteAtom ==
    /\ pc = "call_ConvertParagraphsToNoteAtom"
    /\ doc' = ConvertParagraphsToNoteAtom(paragraphs)
    /\ pc' = "done_ConvertParagraphsToNoteAtom"
    /\ UNCHANGED <<paragraphs, texts, content, client, inv>>

CallConvertTextsToContent ==
    /\ pc = "call_convertTextsToContent"
    /\ content' = convertTextsToContent(texts)
    /\ pc' = "done_convertTextsToContent"
    /\ UNCHANGED <<paragraphs, texts, doc, client, inv>>

Next ==
    \/ CallConvertParagraphsToNoteAtom
    \/ CallConvertTextsToContent

Spec == Init /\ [][Next]_vars

DocDone == pc = "done_ConvertParagraphsToNoteAtom"

ContentDone == pc = "done_convertTextsToContent"

----------------------------------------------------------------------------
(* Vocabulary of the properties, stated from the documented contract and   *)
(* independently of the operators above.                                   *)

\* A file paragraph without a file: the converter emits nothing for it.
Skipped(p) == p.Type = "file" /\ p.File.nil

\* Position in doc.Content of the entry produced for paragraph i.
OutIndex(i) == Cardinality({j \in 1..i : ~Skipped(paragraphs[j])})

\* The paragraphs that are not skipped, in input order.
Kept == SelectSeq(paragraphs, LAMBDA p : ~Skipped(p))

MarkOrder == <<"bold", "highlight", "link">>

Selected(run, m) ==
    \/ m = "bold" /\ run.Bold
    \/ m = "highlight" /\ run.Highlight
    \/ m = "link" /\ run.Link # ""

\* The mark types a run asks for, in the documented order.
SelectedMarks(run) == SelectSeq(MarkOrder, LAMBDA m : Selected(run, m))

MarkTypes(atom) == [j \in 1..Len(atom.Marks.items) |-> atom.Marks.items[j].Type]

\* The documented text atom of a run.
RunAtom(run) ==
    [Type    |-> "text",
     Text    |-> run.Text,
     Content |-> NilSlice,
     Marks   |-> IF SelectedMarks(run) = <<>> THEN NilSlice
                 ELSE [nil   |-> FALSE,
                       items |-> [j \in 1..Len(SelectedMarks(run)) |->
                                    [Type    |-> SelectedMarks(run)[j],
                                     Text    |-> "",
                                     Content |-> NilSlice,
                                     Marks   |-> NilSlice,
                                     Attrs   |-> IF SelectedMarks(run)[j] = "link"
                                                 THEN MapLit("href" :> run.Link)
                                                 ELSE NilMap]]],
     Attrs   |-> NilMap]

RunAtoms(ts) ==
    [nil |-> FALSE, items |-> [j \in 1..Len(ts.items) |-> RunAtom(ts.items[j])]]

\* The documented attributes of a file atom: seeded keys, metadata on top.
FileAttrs(f) ==
    [nil |-> FALSE,
     kv  |-> [k \in {"uuid", "sourceType"} \cup DOMAIN f.Metadata.kv |->
                IF k \in DOMAIN f.Metadata.kv THEN f.Metadata.kv[k]
                ELSE IF k = "uuid" THEN f.SourcePath ELSE f.SourceType]]

\* The documented entry of a paragraph that is not skipped.
Conversion(p) ==
    IF p.Type = "quote"
    THEN [Type |-> "paragraph", Text |-> "", Content |-> RunAtoms(p.Texts),
          Marks |-> NilSlice, Attrs |-> MapLit("blockquote" :> "true")]
    ELSE IF p.Type = "note"
    THEN [Type |-> "note", Text |-> "", Content |-> NilSlice,
          Marks |-> NilSlice, Attrs |-> MapLit("uuid" :> p.NoteID)]
    ELSE IF p.Type = "file"
    THEN [Type |-> p.File.FileType, Text |-> "", Content |-> NilSlice,
          Marks |-> NilSlice, Attrs |-> FileAttrs(p.File)]
    ELSE [Type |-> "paragraph", Text |-> "", Content |-> RunAtoms(p.Texts),
          Marks |-> NilSlice, Attrs |-> NilMap]

\* Every atom of a tree: the atom, its children and its marks, recursively.
RECURSIVE AtomsOf(_)
AtomsOf(atom) ==
    {atom}
    \cup UNION {AtomsOf(atom.Content.items[j]) : j \in 1..Len(atom.Content.items)}
    \cup UNION {AtomsOf(atom.Marks.items[j]) : j \in 1..Len(atom.Marks.items)}

----------------------------------------------------------------------------
(* C1 *)

\* C1 (as stated): ConvertParagraphsToNoteAtom returns a "doc" atom whose
\* content has exactly one entry per input paragraph, entry i being the
\* conversion of paragraph i.
C1_OneEntryPerParagraph ==
    DocDone =>
        /\ doc.Type = "doc"
        /\ Len(doc.Content.items) = Len(paragraphs)
        /\ \A i \in 1..Len(paragraphs) : doc.Content.items[i] = Conversion(paragraphs[i])

\* C1 (amended): ConvertParagraphsToNoteAtom returns a "doc" atom whose
\* content has exactly one entry per input paragraph that is not a file
\* paragraph with an absent file, in input order: entry i is the conversion
\* of the i-th such paragraph, with no sorting, merging or further dropping.
C1_OneEntryPerKeptParagraph ==
    DocDone =>
        /\ doc.Type = "doc"
        /\ ~doc.Content.nil
        /\ Len(doc.Content.items) = Len(Kept)
        /\ \A i \in 1..Len(Kept) : doc.Content.items[i] = Conversion(Kept[i])

C1_Witness ==
    /\ DocDone
    /\ Len(paragraphs) = 3
    /\ Skipped(paragraphs[2])
    /\ paragraphs[1].Type = "quote"
    /\ paragraphs[3].Type = "note"
    /\ Len(doc.Content.items) = 2

----------------------------------------------------------------------------
(* C2 *)

\* C2: convertTextsToContent returns a present sequence of the same length
\* as its input in which element i has type "text" and the text of input
\* run i verbatim; an empty (or nil) input yields an empty, present output.
C2_TextsPreserved ==
    ContentDone =>
        /\ ~content.nil
        /\ Len(content.items) = Len(texts.items)
        /\ \A i \in 1..Len(texts.items) :
              /\ content.items[i].Type = "text"
              /\ content.items[i].Text = texts.items[i].Text

C2_Witness ==
    /\ ContentDone
    /\ Len(texts.items) = 2
    /\ texts.items[1].Text = ""
    /\ texts.items[2].Text = "hello"
    /\ Len(content.items) = 2

----------------------------------------------------------------------------
(* C3 *)

\* C3: the marks of the text atom of a run are exactly the sub-sequence of
\* [bold, highlight, link] selected by the run's bold flag, highlight flag
\* and non-empty link, in that order; the link mark carries attrs.href equal
\* to the run's link; with all three set there are exactly 3 marks.
C3_MarksInFixedOrder ==
    ContentDone =>
        /\ Len(content.items) = Len(texts.items)
        /\ \A i \in 1..Len(texts.items) :
            LET run  == texts.items[i]
                atom == content.items[i]
            IN  /\ MarkTypes(atom) = SelectedMarks(run)
                /\ \A j \in 1..Len(atom.Marks.items) :
                      atom.Marks.items[j].Type = "link" =>
                          atom.Marks.items[j].Attrs = MapLit("href" :> run.Link)
                /\ (run.Bold /\ run.Highlight /\ run.Link # "") =>
                      Len(atom.Marks.items) = 3

C3_Witness ==
    /\ ContentDone
    /\ \E i \in 1..Len(texts.items) :
          /\ texts.items[i].Bold
          /\ texts.items[i].Highlight
          /\ texts.items[i].Link = "https://x"
          /\ Len(content.items[i].Marks.items) = 3

----------------------------------------------------------------------------
(* C4 *)

\* C4: a run with bold = false, highlight = false and an empty link yields a
\* text atom whose marks collection is absent (nil), not present and empty.
C4_NoMarksIsNil ==
    ContentDone =>
        \A i \in 1..Len(texts.items) :
            (~texts.items[i].Bold /\ ~texts.items[i].Highlight /\ texts.items[i].Link = "")
                => content.items[i].Marks = NilSlice

C4_Witness ==
    /\ ContentDone
    /\ \E i \in 1..Len(texts.items) :
          /\ ~texts.items[i].Bold
          /\ ~texts.items[i].Highlight
          /\ texts.items[i].Link = ""
          /\ content.items[i].Marks.nil

----------------------------------------------------------------------------
(* C5 *)

\* C5: every paragraph of kind "quote" yields an atom of type "paragraph"
\* with attrs["blockquote"] = "true" and content equal to the text
\* converter's output over its runs, whether or not the run list is empty.
C5_QuoteIsBlockquote ==
    DocDone =>
        \A i \in 1..Len(paragraphs) :
            paragraphs[i].Type = "quote" =>
                /\ OutIndex(i) \in 1..Len(doc.Content.items)
                /\ LET atom == doc.Content.items[OutIndex(i)]
                   IN  /\ atom.Type = "paragraph"
                       /\ ~atom.Attrs.nil
                       /\ "blockquote" \in DOMAIN atom.Attrs.kv
                       /\ atom.Attrs.kv["blockquote"] = "true"
                       /\ atom.Content = convertTextsToContent(paragraphs[i].Texts)

C5_Witness ==
    /\ DocDone
    /\ \E i, j \in 1..Len(paragraphs) :
          /\ paragraphs[i].Type = "quote"
          /\ Len(paragraphs[i].Texts.items) = 0
          /\ doc.Content.items[OutIndex(i)].Attrs = MapLit("blockquote" :> "true")
          /\ paragraphs[j].Type = "quote"
          /\ Len(paragraphs[j].Texts.items) = 2
          /\ Len(doc.Content.items[OutIndex(j)].Content.items) = 2

----------------------------------------------------------------------------
(* C6 *)

\* C6: every paragraph of kind "note" yields an atom of type "note" with
\* attrs = {uuid: the paragraph's note id} and no content, no marks and no
\* text, even when the paragraph also carries text runs or a file.
C6_NoteReference ==
    DocDone =>
        \A i \in 1..Len(paragraphs) :
            paragraphs[i].Type = "note" =>
                /\ OutIndex(i) \in 1..Len(doc.Content.items)
                /\ LET atom == doc.Content.items[OutIndex(i)]
                   IN  /\ atom.Type = "note"
                       /\ atom.Attrs = MapLit("uuid" :> paragraphs[i].NoteID)
                       /\ atom.Content = NilSlice
                       /\ atom.Marks = NilSlice
                       /\ atom.Text = ""

C6_Witness ==
    /\ DocDone
    /\ \E i \in 1..Len(paragraphs) :
          /\ paragraphs[i].Type = "note"
          /\ paragraphs[i].NoteID = "abc123"
          /\ Len(paragraphs[i].Texts.items) > 0
          /\ ~paragraphs[i].File.nil
          /\ doc.Content.items[OutIndex(i)].Attrs.kv["uuid"] = "abc123"

----------------------------------------------------------------------------
(* C7 *)

\* C7: a paragraph of kind "file" with a file present yields an atom whose
\* type is the file's kind and whose attrs are the union of
\* {uuid: source locator, sourceType: source kind} and the file's metadata:
\* no key of either side is lost, and on a collision the metadata value wins.
C7_FileAttrsMerged ==
    DocDone =>
        \A i \in 1..Len(paragraphs) :
            (paragraphs[i].Type = "file" /\ ~paragraphs[i].File.nil) =>
                /\ OutIndex(i) \in 1..Len(doc.Content.items)
                /\ LET f    == paragraphs[i].File
                       atom == doc.Content.items[OutIndex(i)]
                   IN  /\ atom.Type = f.FileType
                       /\ ~atom.Attrs.nil
                       /\ DOMAIN atom.Attrs.kv =
                             {"uuid", "sourceType"} \cup DOMAIN f.Metadata.kv
                       /\ \A k \in DOMAIN f.Metadata.kv :
                             atom.Attrs.kv[k] = f.Metadata.kv[k]
                       /\ "uuid" \notin DOMAIN f.Metadata.kv =>
                             atom.Attrs.kv["uuid"] = f.SourcePath
                       /\ "sourceType" \notin DOMAIN f.Metadata.kv =>
                             atom.Attrs.kv["sourceType"] = f.SourceType

C7_Witness ==
    /\ DocDone
    /\ \E i, j \in 1..Len(paragraphs) :
          /\ paragraphs[i].Type = "file"
          /\ ~paragraphs[i].File.nil
          /\ "uuid" \in DOMAIN paragraphs[i].File.Metadata.kv
          /\ doc.Content.items[OutIndex(i)].Attrs.kv["uuid"] = "meta-uuid"
          /\ paragraphs[j].Type = "file"
          /\ ~paragraphs[j].File.nil
          /\ doc.Content.items[OutIndex(j)].Attrs.kv =
                (("uuid" :> "file-xyz") @@ ("sourceType" :> "url") @@ ("alt" :> "cat"))

----------------------------------------------------------------------------
(* C8 *)

\* C8: a paragraph of kind "file" whose file is absent contributes no atom:
\* the content length is the number of paragraphs minus the number of file
\* paragraphs with an absent file, and the entries of the other paragraphs
\* keep their relative input order.
C8_NilFileSkipped ==
    DocDone =>
        /\ Len(doc.Content.items) =
              Len(paragraphs) - Cardinality({i \in 1..Len(paragraphs) : Skipped(paragraphs[i])})
        /\ \A i \in 1..Len(paragraphs) :
              ~Skipped(paragraphs[i]) =>
                  /\ OutIndex(i) \in 1..Len(doc.Content.items)
                  /\ doc.Content.items[OutIndex(i)] = Conversion(paragraphs[i])
        /\ \A i, j \in 1..Len(paragraphs) :
              (i < j /\ ~Skipped(paragraphs[i]) /\ ~Skipped(paragraphs[j]))
                  => OutIndex(i) < OutIndex(j)

C8_Witness ==
    /\ DocDone
    /\ Len(paragraphs) = 3
    /\ ~Skipped(paragraphs[1])
    /\ Skipped(paragraphs[2])
    /\ ~Skipped(paragraphs[3])
    /\ paragraphs[1].Type # paragraphs[3].Type
    /\ Len(doc.Content.items) = 2
    /\ doc.Content.items[2] = Conversion(paragraphs[3])

----------------------------------------------------------------------------
(* C9 *)

\* C9: a paragraph whose kind is empty or any string other than "quote",
\* "note" and "file" yields an atom of type "paragraph" with no attrs and
\* content equal to the text converter's output; the conversion of every
\* input completes with a document.
C9_UnknownKindIsPlain ==
    DocDone =>
        /\ doc.Type = "doc"
        /\ \A i \in 1..Len(paragraphs) :
              paragraphs[i].Type \notin {"quote", "note", "file"} =>
                  /\ OutIndex(i) \in 1..Len(doc.Content.items)
                  /\ LET atom == doc.Content.items[OutIndex(i)]
                     IN  /\ atom.Type = "paragraph"
                         /\ atom.Attrs = NilMap
                         /\ atom.Content = convertTextsToContent(paragraphs[i].Texts)
                         /\ atom.Marks = NilSlice
                         /\ atom.Text = ""

C9_Witness ==
    /\ DocDone
    /\ \E i, j \in 1..Len(paragraphs) :
          /\ paragraphs[i].Type = ""
          /\ paragraphs[j].Type = "plain"
          /\ Len(paragraphs[j].Texts.items) = 2
          /\ doc.Content.items[OutIndex(j)].Type = "paragraph"
          /\ Len(doc.Content.items[OutIndex(j)].Content.items) = 2

----------------------------------------------------------------------------
(* C10 *)

NodeTypes == {"doc", "paragraph", "text", "note", "bold", "highlight", "link"}

FileKinds == {"image", "audio", "pdf"}

\* The file kinds the caller passed in file paragraphs that carry a file.
InputFileTypes ==
    {paragraphs[i].File.FileType :
        i \in {j \in 1..Len(paragraphs) :
                  paragraphs[j].Type = "file" /\ ~paragraphs[j].File.nil}}

\* C10 (as stated): every atom of the produced tree has a type in
\* {doc, paragraph, text, note, bold, highlight, link, image, audio, pdf}.
C10_ClosedTypeSet ==
    DocDone => \A atom \in AtomsOf(doc) : atom.Type \in NodeTypes \cup FileKinds

\* C10 (amended): every atom of the produced tree has a type in
\* {doc, paragraph, text, note, bold, highlight, link} or the file kind of
\* one of the input's file paragraphs, which is copied without validation;
\* the type set is the closed one whenever every such kind is image, audio
\* or pdf.
C10_TypesFromInputKinds ==
    DocDone =>
        /\ \A atom \in AtomsOf(doc) : atom.Type \in NodeTypes \cup InputFileTypes
        /\ InputFileTypes \subseteq FileKinds =>
              \A atom \in AtomsOf(doc) : atom.Type \in NodeTypes \cup FileKinds

C10_Witness ==
    /\ DocDone
    /\ "video" \in InputFileTypes
    /\ \E atom \in AtomsOf(doc) : atom.Type = "video"
    /\ \E atom \in AtomsOf(doc) : atom.Type = "link"

----------------------------------------------------------------------------
(* C11 *)

MarkKinds == {"bold", "highlight", "link"}

\* C11: in every produced tree, marks appear only on "text" atoms and hold
\* only bold/highlight/link atoms, text is set only on "text" atoms, and
\* content appears only on "doc" and "paragraph" atoms; the atoms of note and
\* file paragraphs and the mark atoms have no content and no marks.
C11_FieldsByAtomType ==
    DocDone =>
        /\ \A atom \in AtomsOf(doc) :
              /\ (~atom.Marks.nil \/ Len(atom.Marks.items) > 0) =>
                    /\ atom.Type = "text"
                    /\ \A j \in 1..Len(atom.Marks.items) :
                          /\ atom.Marks.items[j].Type \in MarkKinds
                          /\ atom.Marks.items[j].Content = NilSlice
                          /\ atom.Marks.items[j].Marks = NilSlice
                          /\ atom.Marks.items[j].Text = ""
              /\ atom.Text # "" => atom.Type = "text"
              /\ (~atom.Content.nil \/ Len(atom.Content.items) > 0) =>
                    atom.Type \in {"doc", "paragraph"}
        /\ \A i \in 1..Len(paragraphs) :
              (paragraphs[i].Type = "note" \/ (paragraphs[i].Type = "file" /\ ~Skipped(paragraphs[i])))
                  => /\ OutIndex(i) \in 1..Len(doc.Content.items)
                     /\ doc.Content.items[OutIndex(i)].Content = NilSlice
                     /\ doc.Content.items[OutIndex(i)].Marks = NilSlice
                     /\ doc.Content.items[OutIndex(i)].Text = ""

C11_Witness ==
    /\ DocDone
    /\ \E i, j, k \in 1..Len(paragraphs) :
          /\ paragraphs[i].Type = "note"
          /\ Len(paragraphs[i].Texts.items) = 2
          /\ paragraphs[j].Type = "file"
          /\ ~paragraphs[j].File.nil
          /\ paragraphs[k].Type = "quote"
          /\ \E a \in AtomsOf(doc.Content.items[OutIndex(k)]) : Len(a.Marks.items) = 3

----------------------------------------------------------------------------
(* JSON values, and encoding/json as the client uses it.                   *)

JNull == [t |-> "null"]

JString(str) == [t |-> "string", s |-> str]

JNumber(num) == [t |-> "number", n |-> num]

JBool(b) == [t |-> "bool", b |-> b]

JObject(members) == [t |-> "object", kv |-> members]

JArray(elems) == [t |-> "array", items |-> elems]

\* The JSON value v is an object with a member key of the given JSON type.
Has(v, key, type) == v.t = "object" /\ key \in DOMAIN v.kv /\ v.kv[key].t = type

\* A struct field tagged omitempty is left out when it holds its zero value.
Field(key, value) == key :> value

OmitEmpty(empty, key, value) == IF empty THEN EmptyKV ELSE key :> value

\* Key/value pairs of a map[string]string as JSON members.
Members(m) == [k \in DOMAIN m.kv |-> JString(m.kv[k])]

\* json.Marshal of a NoteAtom (part_000:4-10): type always, the rest omitempty.
RECURSIVE MarshalNoteAtom(_)
MarshalNoteAtom(atom) ==
    JObject(Field("type", JString(atom.Type))
            @@ OmitEmpty(atom.Text = "", "text", JString(atom.Text))
            @@ OmitEmpty(Len(atom.Content.items) = 0, "content",
                         JArray([j \in 1..Len(atom.Content.items) |->
                                    MarshalNoteAtom(atom.Content.items[j])]))
            @@ OmitEmpty(Len(atom.Marks.items) = 0, "marks",
                         JArray([j \in 1..Len(atom.Marks.items) |->
                                    MarshalNoteAtom(atom.Marks.items[j])]))
            @@ OmitEmpty(DOMAIN atom.Attrs.kv = {}, "attrs",
                         JObject(Members(atom.Attrs))))

\* Variant: the tags are written under the key "tag".
MarshalNoteCreateRequestTagKey(req) ==
    JObject(Field("body", MarshalNoteAtom(req.Body))
            @@ Field("settings",
                     JObject(OmitEmpty(~req.Settings.AutoPublish, "autoPublish",
                                       JBool(req.Settings.AutoPublish))
                             @@ OmitEmpty(Len(req.Settings.Tags.items) = 0, "tag",
                                          JArray([j \in 1..Len(req.Settings.Tags.items) |->
                                                    JString(req.Settings.Tags.items[j])])))))

\* json.Marshal of a NoteCreateRequest (part_000:13-22): body and settings
\* always, autoPublish and tags omitempty.
MarshalNoteCreateRequest(req) ==
    JObject(Field("body", MarshalNoteAtom(req.Body))
            @@ Field("settings",
                     JObject(OmitEmpty(~req.Settings.AutoPublish, "autoPublish",
                                       JBool(req.Settings.AutoPublish))
                             @@ OmitEmpty(Len(req.Settings.Tags.items) = 0, "tags",
                                          JArray([j \in 1..Len(req.Settings.Tags.items) |->
                                                    JString(req.Settings.Tags.items[j])])))))

MarshalNoteEditRequest(req) ==
    JObject(Field("noteId", JString(req.NoteID))
            @@ Field("body", MarshalNoteAtom(req.Body)))

\* Variant: the rule fields are always written, zero values included.
MarshalNotePrivacySetRuleZeroFilled(rule) ==
    JObject(Field("noShare", JBool(rule.NoShare))
            @@ Field("expireAt", JString(rule.ExpireAt)))

\* NotePrivacySetRule (part_000:31-34): both fields omitempty.  ExpireAt is
\* a string, held here as its sequence of characters.
MarshalNotePrivacySetRule(rule) ==
    JObject(OmitEmpty(~rule.NoShare, "noShare", JBool(rule.NoShare))
            @@ OmitEmpty(Len(rule.ExpireAt) = 0, "expireAt", JString(rule.ExpireAt)))

\* NotePrivacySet (part_000:37-40): rule is a pointer, omitted when nil.
MarshalNotePrivacySet(privacy) ==
    JObject(Field("type", JString(privacy.Type))
            @@ OmitEmpty(privacy.Rule.nil, "rule", MarshalNotePrivacySetRule(privacy.Rule)))

\* NoteSetRequest (part_000:48-52) and NoteSettings (part_000:43-45).
MarshalNoteSetRequest(req) ==
    JObject(Field("noteId", JString(req.NoteID))
            @@ Field("section", JNumber(req.Section))
            @@ Field("settings",
                     IF req.Settings.nil THEN JNull
                     ELSE JObject(OmitEmpty(req.Settings.Privacy.nil, "privacy",
                                            MarshalNotePrivacySet(req.Settings.Privacy)))))

\* json.Unmarshal of an object into a NoteAtom: a member that is absent
\* leaves its field at the zero value, a nil slice or map included.
RECURSIVE UnmarshalNoteAtom(_)
UnmarshalNoteAtom(j) ==
    [Type    |-> IF Has(j, "type", "string") THEN j.kv["type"].s ELSE "",
     Text    |-> IF Has(j, "text", "string") THEN j.kv["text"].s ELSE "",
     Content |-> IF Has(j, "content", "array")
                 THEN [nil |-> FALSE,
                       items |-> [k \in 1..Len(j.kv["content"].items) |->
                                    UnmarshalNoteAtom(j.kv["content"].items[k])]]
                 ELSE NilSlice,
     Marks   |-> IF Has(j, "marks", "array")
                 THEN [nil |-> FALSE,
                       items |-> [k \in 1..Len(j.kv["marks"].items) |->
                                    UnmarshalNoteAtom(j.kv["marks"].items[k])]]
                 ELSE NilSlice,
     Attrs   |-> IF Has(j, "attrs", "object")
                 THEN MapLit([k \in DOMAIN j.kv["attrs"].kv |-> j.kv["attrs"].kv[k].s])
                 ELSE NilMap]

\* json.Unmarshal of an object into a NoteCreateRequest.
UnmarshalNoteCreateRequest(j) ==
    [Body     |-> IF Has(j, "body", "object") THEN UnmarshalNoteAtom(j.kv["body"]) ELSE ZeroAtom,
     Settings |->
        IF Has(j, "settings", "object")
        THEN [AutoPublish |-> IF Has(j.kv["settings"], "autoPublish", "bool")
                              THEN j.kv["settings"].kv["autoPublish"].b ELSE FALSE,
              Tags        |-> IF Has(j.kv["settings"], "tags", "array")
                              THEN [nil |-> FALSE,
                                    items |-> [k \in 1..Len(j.kv["settings"].kv["tags"].items) |->
                                                 j.kv["settings"].kv["tags"].items[k].s]]
                              ELSE NilSlice]
        ELSE [AutoPublish |-> FALSE, Tags |-> NilSlice]]

\* The body argument of makeRequest: a typed value, or nil.
Body(type, value) == [nil |-> FALSE, type |-> type, value |-> value]

NilBody == [nil |-> TRUE, type |-> "", value |-> <<>>]

\* json.Marshal(body), by the dynamic type of body.
Marshal(body) ==
    CASE body.type = "NoteCreateRequest" -> MarshalNoteCreateRequest(body.value)
      [] body.type = "NoteEditRequest"   -> MarshalNoteEditRequest(body.value)
      [] body.type = "NoteSetRequest"    -> MarshalNoteSetRequest(body.value)
      [] body.type = "KeyResetRequest"   -> JObject(EmptyKV)
      [] body.type = "map"               -> JObject(body.value)

----------------------------------------------------------------------------
(* Response bodies of the backend, as raw text, and json.Unmarshal.        *)

BodyOK == "{\"code\":0,\"data\":{\"noteId\":\"n-1\"}}"

BodyUnauthorized == "{\"error\":\"unauthorized\"}"

BodyNull == "null"

BodyArray == "[1]"

BodyInvalid == "{\"invalid\": json}"

BodyEmpty == ""

UploadSlotURL == "https://oss.example/slot"

BadURL == "://bad"

BodyPrepared ==
    "{\"data\":{\"upload_url\":\"https://oss.example/slot\",\"form_data\":{\"key\":\"k1\",\"policy\":\"p1\",\"expire\":3600}}}"

BodyDataString == "{\"data\":\"x\"}"

BodyNoUploadURL == "{\"data\":{\"form_data\":{\"key\":\"k1\"}}}"

BodyUploadURLNumber == "{\"data\":{\"upload_url\":17,\"form_data\":{}}}"

BodyNoFormData == "{\"data\":{\"upload_url\":\"https://oss.example/slot\"}}"

BodyFormDataArray == "{\"data\":{\"upload_url\":\"https://oss.example/slot\",\"form_data\":[]}}"

BodyBadUploadURL == "{\"data\":{\"upload_url\":\"://bad\",\"form_data\":{}}}"

\* The JSON value a body text denotes; valid is FALSE when it is not JSON.
Parse(raw) ==
    CASE raw = BodyOK ->
            [valid |-> TRUE,
             v |-> JObject(("code" :> JNumber(0))
                           @@ ("data" :> JObject("noteId" :> JString("n-1"))))]
      [] raw = BodyUnauthorized ->
            [valid |-> TRUE, v |-> JObject("error" :> JString("unauthorized"))]
      [] raw = BodyNull -> [valid |-> TRUE, v |-> JNull]
      [] raw = BodyArray -> [valid |-> TRUE, v |-> JArray(<<JNumber(1)>>)]
      [] raw = BodyPrepared ->
            [valid |-> TRUE,
             v |-> JObject("data" :>
                     JObject(("upload_url" :> JString(UploadSlotURL))
                             @@ ("form_data" :>
                                   JObject(("key" :> JString("k1"))
                                           @@ ("policy" :> JString("p1"))
                                           @@ ("expire" :> JNumber(3600))))))]
      [] raw = BodyDataString ->
            [valid |-> TRUE, v |-> JObject("data" :> JString("x"))]
      [] raw = BodyNoUploadURL ->
            [valid |-> TRUE,
             v |-> JObject("data" :>
                     JObject("form_data" :> JObject("key" :> JString("k1"))))]
      [] raw = BodyUploadURLNumber ->
            [valid |-> TRUE,
             v |-> JObject("data" :>
                     JObject(("upload_url" :> JNumber(17))
                             @@ ("form_data" :> JObject(EmptyKV))))]
      [] raw = BodyNoFormData ->
            [valid |-> TRUE,
             v |-> JObject("data" :> JObject("upload_url" :> JString(UploadSlotURL)))]
      [] raw = BodyFormDataArray ->
            [valid |-> TRUE,
             v |-> JObject("data" :>
                     JObject(("upload_url" :> JString(UploadSlotURL))
                             @@ ("form_data" :> JArray(<<>>))))]
      [] raw = BodyBadUploadURL ->
            [valid |-> TRUE,
             v |-> JObject("data" :>
                     JObject(("upload_url" :> JString(BadURL))
                             @@ ("form_data" :> JObject(EmptyKV))))]
      [] OTHER -> [valid |-> FALSE, v |-> JNull]

Error(msg) == [nil |-> FALSE, msg |-> msg]

\* fmt.Errorf("<prefix>: %w", err)
Errorf(prefix, err) == [nil |-> FALSE, msg |-> <<prefix>> \o err.msg]

\* Variant: a JSON value that is not an object leaves the map nil, as a
\* null does, and is no error.
UnmarshalNonObjectAsNil(raw) ==
    LET p == Parse(raw)
    IN  IF ~p.valid
        THEN [err |-> Error(<<"invalid character">>), m |-> NilMap]
        ELSE IF p.v.t = "object"
        THEN [err |-> NilError, m |-> MapLit(p.v.kv)]
        ELSE [err |-> NilError, m |-> NilMap]

\* var result map[string]interface{}; err := json.Unmarshal(raw, &result)
\* A JSON null leaves the map nil and is no error; any other value that is
\* not an object is an error, as is text that is not JSON.
Unmarshal(raw) ==
    LET p == Parse(raw)
    IN  IF ~p.valid
        THEN [err |-> Error(<<"invalid character">>), m |-> NilMap]
        ELSE IF p.v.t = "null"
        THEN [err |-> NilError, m |-> NilMap]
        ELSE IF p.v.t = "object"
        THEN [err |-> NilError, m |-> MapLit(p.v.kv)]
        ELSE [err |-> Error(<<"json: cannot unmarshal into Go value of type map[string]interface {}">>),
              m |-> NilMap]

\* v, ok := m[key].(map[string]interface{})
AssertMap(m, key) ==
    IF key \in DOMAIN m.kv /\ m.kv[key].t = "object"
    THEN [ok |-> TRUE, v |-> MapLit(m.kv[key].kv)]
    ELSE [ok |-> FALSE, v |-> NilMap]

\* v, ok := m[key].(string)
AssertString(m, key) ==
    IF key \in DOMAIN m.kv /\ m.kv[key].t = "string"
    THEN [ok |-> TRUE, v |-> m.kv[key].s]
    ELSE [ok |-> FALSE, v |-> ""]

----------------------------------------------------------------------------
(* What the transport gives back for one request.                          *)

\* A response with a status line and a fully readable body.
Response(status, body) ==
    [kind |-> "response", status |-> status, body |-> body, cause |-> ""]

\* httpClient.Do fails: no connection, or the client's timeout expired.
SendError(cause) == [kind |-> "send_error", status |-> 0, body |-> "", cause |-> cause]

\* The status line arrived but reading the body failed.
ReadError(status, cause) ==
    [kind |-> "read_error", status |-> status, body |-> "", cause |-> cause]

----------------------------------------------------------------------------
(* MowenClient: makeRequest and the client methods.                        *)

NoteCreateEndpoint == "/api/open/api/v1/note/create"

NoteEditEndpoint == "/api/open/api/v1/note/edit"

NoteSetEndpoint == "/api/open/api/v1/note/set"

KeyResetEndpoint == "/api/open/api/v1/auth/key/reset"

UploadPrepareEndpoint == "/api/open/api/v1/upload/prepare"

UploadURLEndpoint == "/api/open/api/v1/upload/url"

\* Variant: the key-reset request goes out without the Authorization header.
makeRequestSendNoAuthOnReset(c, method, endpoint, body) ==
    [method |-> method,
     url    |-> <<c.baseURL, endpoint>>,
     header |-> IF body.type = "KeyResetRequest"
                THEN "Content-Type" :> <<"application/json">>
                ELSE ("Content-Type" :> <<"application/json">>)
                     @@ ("Authorization" :> <<"Bearer ", c.apiKey>>),
     body   |-> IF body.nil THEN [nil |-> TRUE, kind |-> "", json |-> JNull]
                ELSE [nil |-> FALSE, kind |-> "json", json |-> Marshal(body)]]

\* Variant: a request value without fields is sent as no body at all.
makeRequestSendResetWithoutBody(c, method, endpoint, body) ==
    [method |-> method,
     url    |-> <<c.baseURL, endpoint>>,
     header |-> ("Content-Type" :> <<"application/json">>)
                @@ ("Authorization" :> <<"Bearer ", c.apiKey>>),
     body   |-> IF body.nil \/ body.type = "KeyResetRequest"
                THEN [nil |-> TRUE, kind |-> "", json |-> JNull]
                ELSE [nil |-> FALSE, kind |-> "json", json |-> Marshal(body)]]

\* makeRequest up to httpClient.Do: the request that goes out.  The url is
\* c.baseURL+endpoint and the Authorization value "Bearer "+c.apiKey, both
\* held as the pair of their parts.
makeRequestSend(c, method, endpoint, body) ==
    [method |-> method,
     url    |-> <<c.baseURL, endpoint>>,
     header |-> ("Content-Type" :> <<"application/json">>)
                @@ ("Authorization" :> <<"Bearer ", c.apiKey>>),
     body   |-> IF body.nil THEN [nil |-> TRUE, kind |-> "", json |-> JNull]
                ELSE [nil |-> FALSE, kind |-> "json", json |-> Marshal(body)]]

\* Variant: only the client-error statuses are rejected.
makeRequestReturnAccepts5xx(resp) ==
    IF resp.kind = "send_error"
    THEN [err |-> Error(<<"failed to send request", resp.cause>>), body |-> ""]
    ELSE IF resp.kind = "read_error"
    THEN [err |-> Error(<<"failed to read response body", resp.cause>>), body |-> ""]
    ELSE IF resp.status >= 400 /\ resp.status < 500
    THEN [err |-> Error(<<"API request failed with status", ToString(resp.status), resp.body>>),
          body |-> ""]
    ELSE [err |-> NilError, body |-> resp.body]

\* Variant: a failed exchange is taken for an answer without content.
makeRequestReturnSwallowsSendError(resp) ==
    IF resp.kind = "send_error"
    THEN [err |-> NilError, body |-> ""]
    ELSE IF resp.kind = "read_error"
    THEN [err |-> Error(<<"failed to read response body", resp.cause>>), body |-> ""]
    ELSE IF resp.status # 200
    THEN [err |-> Error(<<"API request failed with status", ToString(resp.status), resp.body>>),
          body |-> ""]
    ELSE [err |-> NilError, body |-> resp.body]

\* makeRequest from httpClient.Do on: what it returns for the transport's
\* outcome.  "API request failed with status %d: %s" is held as its three
\* parts, the status in decimal.
makeRequestReturn(resp) ==
    IF resp.kind = "send_error"
    THEN [err |-> Error(<<"failed to send request", resp.cause>>), body |-> ""]
    ELSE IF resp.kind = "read_error"
    THEN [err |-> Error(<<"failed to read response body", resp.cause>>), body |-> ""]
    ELSE IF resp.status # 200
    THEN [err |-> Error(<<"API request failed with status", ToString(resp.status), resp.body>>),
          body |-> ""]
    ELSE [err |-> NilError, body |-> resp.body]

Endpoint(tool) ==
    CASE tool = "create_note"         -> NoteCreateEndpoint
      [] tool = "edit_note"           -> NoteEditEndpoint
      [] tool = "set_note_privacy"    -> NoteSetEndpoint
      [] tool = "reset_api_key"       -> KeyResetEndpoint
      [] tool = "upload_file"         -> UploadPrepareEndpoint
      [] tool = "upload_file_via_url" -> UploadURLEndpoint

\* The prefix a client method puts before makeRequest's error.
ClientErrorPrefix(tool) ==
    CASE tool = "create_note"         -> "failed to create note"
      [] tool = "edit_note"           -> "failed to edit note"
      [] tool = "set_note_privacy"    -> "failed to set note privacy"
      [] tool = "reset_api_key"       -> "failed to reset API key"
      [] tool = "upload_file"         -> "failed to prepare upload"
      [] tool = "upload_file_via_url" -> "failed to upload file via URL"

\* CreateNote, EditNote, SetNotePrivacy, ResetAPIKey, UploadFileViaURL after
\* makeRequest returned: wrap its error, or decode the body.
ClientReturn(tool, resp) ==
    LET out == makeRequestReturn(resp)
    IN  IF ~out.err.nil
        THEN [result |-> NilMap, err |-> Errorf(ClientErrorPrefix(tool), out.err)]
        ELSE LET u == Unmarshal(out.body)
             IN  IF ~u.err.nil
                 THEN [result |-> NilMap, err |-> Errorf("failed to unmarshal response", u.err)]
                 ELSE [result |-> u.m, err |-> NilError]

----------------------------------------------------------------------------
(* UploadFile: the prepare leg, the local file and the upload leg.         *)

NoUpload == [uploadURL |-> "", formData |-> NilMap]

\* Variant: a missing form_data is reported with the upload_url message.
UploadFilePrepareReturnSameMessage(resp) ==
    LET out == makeRequestReturn(resp)
        u == Unmarshal(out.body)
        data == AssertMap(u.m, "data")
        uploadURL == AssertString(data.v, "upload_url")
        formData == AssertMap(data.v, "form_data")
    IN  IF ~out.err.nil
        THEN [err |-> Errorf("failed to prepare upload", out.err), upload |-> NoUpload]
        ELSE IF ~u.err.nil
        THEN [err |-> Errorf("failed to unmarshal prepare response", u.err), upload |-> NoUpload]
        ELSE IF ~data.ok
        THEN [err |-> Error(<<"invalid prepare response format">>), upload |-> NoUpload]
        ELSE IF ~uploadURL.ok \/ ~formData.ok
        THEN [err |-> Error(<<"missing upload_url in prepare response">>), upload |-> NoUpload]
        ELSE [err |-> NilError,
              upload |-> [uploadURL |-> uploadURL.v, formData |-> formData.v]]

\* Variant: a prepare response without form_data is taken as an empty form.
UploadFilePrepareReturnLenient(resp) ==
    LET out == makeRequestReturn(resp)
        u == Unmarshal(out.body)
        data == AssertMap(u.m, "data")
        uploadURL == AssertString(data.v, "upload_url")
        formData == AssertMap(data.v, "form_data")
    IN  IF ~out.err.nil
        THEN [err |-> Errorf("failed to prepare upload", out.err), upload |-> NoUpload]
        ELSE IF ~u.err.nil
        THEN [err |-> Errorf("failed to unmarshal prepare response", u.err), upload |-> NoUpload]
        ELSE IF ~data.ok
        THEN [err |-> Error(<<"invalid prepare response format">>), upload |-> NoUpload]
        ELSE IF ~uploadURL.ok
        THEN [err |-> Error(<<"missing upload_url in prepare response">>), upload |-> NoUpload]
        ELSE [err |-> NilError,
              upload |-> [uploadURL |-> uploadURL.v, formData |-> formData.v]]

\* Variant: the prepare answer is decoded whatever its status.
UploadFilePrepareReturnIgnoresStatus(resp) ==
    LET u == Unmarshal(resp.body)
        data == AssertMap(u.m, "data")
        uploadURL == AssertString(data.v, "upload_url")
        formData == AssertMap(data.v, "form_data")
    IN  IF resp.kind # "response"
        THEN [err |-> Errorf("failed to prepare upload", makeRequestReturn(resp).err),
              upload |-> NoUpload]
        ELSE IF ~u.err.nil
        THEN [err |-> Errorf("failed to unmarshal prepare response", u.err), upload |-> NoUpload]
        ELSE IF ~data.ok
        THEN [err |-> Error(<<"invalid prepare response format">>), upload |-> NoUpload]
        ELSE IF ~uploadURL.ok
        THEN [err |-> Error(<<"missing upload_url in prepare response">>), upload |-> NoUpload]
        ELSE IF ~formData.ok
        THEN [err |-> Error(<<"missing form_data in prepare response">>), upload |-> NoUpload]
        ELSE [err |-> NilError,
              upload |-> [uploadURL |-> uploadURL.v, formData |-> formData.v]]

\* UploadFile from the return of the prepare makeRequest to os.Open.
UploadFilePrepareReturn(resp) ==
    LET out == makeRequestReturn(resp)
        u == Unmarshal(out.body)
        data == AssertMap(u.m, "data")
        uploadURL == AssertString(data.v, "upload_url")
        formData == AssertMap(data.v, "form_data")
    IN  IF ~out.err.nil
        THEN [err |-> Errorf("failed to prepare upload", out.err), upload |-> NoUpload]
        ELSE IF ~u.err.nil
        THEN [err |-> Errorf("failed to unmarshal prepare response", u.err), upload |-> NoUpload]
        ELSE IF ~data.ok
        THEN [err |-> Error(<<"invalid prepare response format">>), upload |-> NoUpload]
        ELSE IF ~uploadURL.ok
        THEN [err |-> Error(<<"missing upload_url in prepare response">>), upload |-> NoUpload]
        ELSE IF ~formData.ok
        THEN [err |-> Error(<<"missing form_data in prepare response">>), upload |-> NoUpload]
        ELSE [err |-> NilError,
              upload |-> [uploadURL |-> uploadURL.v, formData |-> formData.v]]

\* Variant: only a file that does not exist is taken for a failure to open.
OpenFileErrorMissingOnly(file) ==
    IF file = "missing"
    THEN Error(<<"failed to open file", "open: no such file or directory">>)
    ELSE NilError

\* os.Open(filePath) on the state of the local file.
OpenFileError(file) ==
    IF file = "missing"
    THEN Error(<<"failed to open file", "open: no such file or directory">>)
    ELSE IF file = "denied"
    THEN Error(<<"failed to open file", "open: permission denied">>)
    ELSE NilError

\* Variant: an entry that is not a string is written too, as text.
FormFieldsWritesAll(formData) ==
    [k \in DOMAIN formData.kv |->
        IF formData.kv[k].t = "string" THEN formData.kv[k].s ELSE "non-string"]

\* writer.WriteField for every form_data entry whose value is a string; the
\* map is visited in an unspecified order, so the fields are held by key.
FormFields(formData) ==
    [k \in {x \in DOMAIN formData.kv : formData.kv[x].t = "string"} |-> formData.kv[k].s]

\* The orders in which a range over a map with the keys S can visit them.
Orders(S) ==
    {o \in [1..Cardinality(S) -> S] : \A a, b \in 1..Cardinality(S) : a # b => o[a] # o[b]}

\* The parts of the multipart body in the order they are written: the plain
\* fields as the range over form_data meets them, then the file.
Parts(formData, fileName, order) ==
    [k \in 1..Len(order) |->
        [kind |-> "field", name |-> order[k], filename |-> "",
         value |-> FormFields(formData)[order[k]]]]
    \o <<[kind |-> "file", name |-> "file", filename |-> fileName, value |-> "file content"]>>

\* http.NewRequest("POST", uploadURL, body) with the multipart content type
\* as its only header.
UploadRequest(c, uploadURL, formData, fileName, order) ==
    [method |-> "POST",
     url    |-> <<uploadURL>>,
     header |-> "Content-Type" :> <<"multipart/form-data; boundary=", "boundary">>,
     body   |-> [nil |-> FALSE, kind |-> "multipart",
                 parts |-> Parts(formData, fileName, order)]]

\* What stops UploadFile between os.Open and httpClient.Do: io.Copy fails on
\* a file that opens but cannot be read, http.NewRequest on a url it cannot
\* parse.
UploadBuildError(file, uploadURL) ==
    IF file = "unreadable"
    THEN Error(<<"failed to copy file content", "read: is a directory">>)
    ELSE IF uploadURL = BadURL
    THEN Error(<<"failed to create upload request", "parse: missing protocol scheme">>)
    ELSE NilError

\* Variant: a response of the upload leg is decoded whatever its status.
UploadFileUploadReturnAnyStatus(resp) ==
    IF resp.kind = "send_error"
    THEN [result |-> NilMap, err |-> Error(<<"failed to send upload request", resp.cause>>)]
    ELSE IF resp.kind = "read_error"
    THEN [result |-> NilMap,
          err |-> Error(<<"failed to read upload response body", resp.cause>>)]
    ELSE LET u == Unmarshal(resp.body)
         IN  IF ~u.err.nil
             THEN [result |-> NilMap,
                   err |-> Errorf("failed to unmarshal upload response", u.err)]
             ELSE [result |-> u.m, err |-> NilError]

\* UploadFile from httpClient.Do of the upload leg on.
UploadFileUploadReturn(resp) ==
    IF resp.kind = "send_error"
    THEN [result |-> NilMap, err |-> Error(<<"failed to send upload request", resp.cause>>)]
    ELSE IF resp.kind = "read_error"
    THEN [result |-> NilMap,
          err |-> Error(<<"failed to read upload response body", resp.cause>>)]
    ELSE IF resp.status # 200
    THEN [result |-> NilMap,
          err |-> Error(<<"upload request failed with status", ToString(resp.status), resp.body>>)]
    ELSE LET u == Unmarshal(resp.body)
         IN  IF ~u.err.nil
             THEN [result |-> NilMap,
                   err |-> Errorf("failed to unmarshal upload response", u.err)]
             ELSE [result |-> u.m, err |-> NilError]

----------------------------------------------------------------------------
(* The tool handlers of MowenMCPServer.                                    *)

DigitChars == <<"0", "1", "2", "3", "4", "5", "6", "7", "8", "9">>

RECURSIVE Digits(_, _)
Digits(n, base) ==
    IF n < base THEN <<DigitChars[n + 1]>>
    ELSE Append(Digits(n \div base, base), DigitChars[(n % base) + 1])

\* strconv.FormatInt(n, base) for base <= 10, as the sequence of characters.
FormatInt(n, base) == IF n < 0 THEN <<"-">> \o Digits(-n, base) ELSE Digits(n, base)

NilRule == [nil |-> TRUE, NoShare |-> FALSE, ExpireAt |-> <<>>]

\* Variant: the rule is attached whenever one of its fields was supplied.
PrivacySetRuleWhenSupplied(args) ==
    [nil  |-> FALSE,
     Type |-> args.PrivacyType,
     Rule |-> IF args.PrivacyType = "rule" \/ ~args.NoShare.nil \/ ~args.ExpireAt.nil
              THEN [nil      |-> FALSE,
                    NoShare  |-> IF ~args.NoShare.nil THEN args.NoShare.v ELSE FALSE,
                    ExpireAt |-> IF ~args.ExpireAt.nil
                                 THEN FormatInt(args.ExpireAt.v, 10) ELSE <<>>]
              ELSE NilRule]

\* handleSetNotePrivacy: privacySet, with the rule under type "rule" only.
PrivacySet(args) ==
    [nil  |-> FALSE,
     Type |-> args.PrivacyType,
     Rule |-> IF args.PrivacyType = "rule"
              THEN [nil      |-> FALSE,
                    NoShare  |-> IF ~args.NoShare.nil THEN args.NoShare.v ELSE FALSE,
                    ExpireAt |-> IF ~args.ExpireAt.nil
                                 THEN FormatInt(args.ExpireAt.v, 10) ELSE <<>>]
              ELSE NilRule]

\* The value a handler and its client method hand to makeRequest as body.
RequestBody(tool, args) ==
    CASE tool = "create_note" ->
            Body("NoteCreateRequest",
                 [Body     |-> ConvertParagraphsToNoteAtom(args.Paragraphs),
                  Settings |-> [AutoPublish |-> args.AutoPublish, Tags |-> args.Tags]])
      [] tool = "edit_note" ->
            Body("NoteEditRequest",
                 [NoteID |-> args.NoteID,
                  Body   |-> ConvertParagraphsToNoteAtom(args.Paragraphs)])
      [] tool = "set_note_privacy" ->
            Body("NoteSetRequest",
                 [NoteID   |-> args.NoteID,
                  Section  |-> 1,
                  Settings |-> [nil |-> FALSE, Privacy |-> PrivacySet(args)]])
      [] tool = "reset_api_key" -> Body("KeyResetRequest", <<>>)
      [] tool = "upload_file" ->
            Body("map", ("file_type" :> JNumber(args.FileType))
                        @@ ("file_name" :> JString(args.FileName)))
      [] tool = "upload_file_via_url" ->
            Body("map", ("url" :> JString(args.FileURL))
                        @@ ("file_type" :> JNumber(args.FileType))
                        @@ (IF args.FileName # ""
                            THEN "file_name" :> JString(args.FileName) ELSE EmptyKV))

\* The prefix a handler puts before the client's error.
HandlerErrorPrefix(tool) ==
    CASE tool = "create_note"         -> "failed to create note"
      [] tool = "edit_note"           -> "failed to edit note"
      [] tool = "set_note_privacy"    -> "failed to set note privacy"
      [] tool = "reset_api_key"       -> "failed to reset API key"
      [] tool = "upload_file"         -> "failed to upload file"
      [] tool = "upload_file_via_url" -> "failed to upload file via URL"

\* The fixed part of the text a handler returns on success.
SuccessText(tool) ==
    CASE tool = "create_note"         -> "note created"
      [] tool = "edit_note"           -> "note edited"
      [] tool = "set_note_privacy"    -> "note privacy set"
      [] tool = "reset_api_key"       -> "API key reset"
      [] tool = "upload_file"         -> "file uploaded"
      [] tool = "upload_file_via_url" -> "file uploaded via URL"

\* Variant: the handler reports its own message and drops the client's.
HandlerReturnDropsCause(tool, out) ==
    IF ~out.err.nil
    THEN [result |-> NilResult, err |-> Error(<<HandlerErrorPrefix(tool)>>)]
    ELSE [result |-> [nil |-> FALSE, text |-> <<SuccessText(tool), out.result>>],
          err |-> NilError]

\* A handler after its client method returned (result, err).
HandlerReturn(tool, out) ==
    IF ~out.err.nil
    THEN [result |-> NilResult, err |-> Errorf(HandlerErrorPrefix(tool), out.err)]
    ELSE [result |-> [nil |-> FALSE, text |-> <<SuccessText(tool), out.result>>],
          err |-> NilError]

\* The argument struct of a handler before VerifyAndUnmarshal fills it.
ZeroArgs(tool) ==
    CASE tool = "create_note" ->
            [Paragraphs |-> <<>>, AutoPublish |-> FALSE, Tags |-> NilSlice]
      [] tool = "edit_note" -> [NoteID |-> "", Paragraphs |-> <<>>]
      [] tool = "set_note_privacy" ->
            [NoteID |-> "", PrivacyType |-> "",
             NoShare |-> [nil |-> TRUE, v |-> FALSE],
             ExpireAt |-> [nil |-> TRUE, v |-> 0]]
      [] tool = "reset_api_key" -> [none |-> TRUE]
      [] tool = "upload_file" -> [FilePath |-> "", FileType |-> 0, FileName |-> ""]
      [] tool = "upload_file_via_url" -> [FileURL |-> "", FileType |-> 0, FileName |-> ""]

\* Variant: a payload that does not decode is served with the zero arguments.
VerifyAndUnmarshalLenient(tool, raw) == [err |-> NilError, args |-> raw.args]

\* protocol.VerifyAndUnmarshal(req.RawArguments, &args) and the handler's
\* wrapping of its error: fmt.Errorf("invalid arguments: %v", err).
VerifyAndUnmarshal(tool, raw) ==
    IF ~raw.ok
    THEN [err |-> Error(<<"invalid arguments", "cannot unmarshal arguments">>),
          args |-> ZeroArgs(tool)]
    ELSE [err |-> NilError, args |-> raw.args]

\* Variant: the request is bound to the caller's context, so that a cancelled
\* context aborts the call in flight.
TransportHonoursContext(ctx, resp) ==
    IF ctx = "cancelled" THEN SendError("context canceled") ELSE resp

\* httpClient.Do(req) for a handler whose context is ctx: the request is made
\* by http.NewRequest, without the context, so the outcome is the backend's.
Transport(ctx, resp) == resp

\* Variant: a successful key reset forgets the key it has invalidated.
ClientAfterDropsOldKey(c, tool, out) ==
    IF tool = "reset_api_key" /\ out.err.nil THEN [c EXCEPT !.apiKey = ""] ELSE c

\* Variant: a successful key reset stores the new key in the client.
ClientAfterAdoptsNewKey(c, tool, out) ==
    IF tool = "reset_api_key" /\ out.err.nil THEN [c EXCEPT !.apiKey = "key-1"] ELSE c

\* The shared client after a client method returned: no method assigns a
\* field of its receiver.
ClientAfter(c, tool, out) == c

----------------------------------------------------------------------------
(* The callers of the tools and the backend they meet.                     *)

Tools ==
    {"create_note", "edit_note", "set_note_privacy", "reset_api_key",
     "upload_file", "upload_file_via_url"}

Ptr(x) == [nil |-> FALSE, v |-> x]

NilBool == [nil |-> TRUE, v |-> FALSE]

NilInt64 == [nil |-> TRUE, v |-> 0]

ParagraphLists ==
    { <<>>,
      <<Paragraph("", [nil |-> FALSE, items |-> <<TextNode("a", TRUE, FALSE, "")>>], "", NilFile)>>,
      <<Paragraph("quote", [nil |-> FALSE, items |-> <<TextNode("q", FALSE, TRUE, "https://x.y")>>], "", NilFile),
        Paragraph("file", NilSlice, "",
                  FileNode("image", "url", "https://x.y/a.png", MapLit("alt" :> "pic")))>> }

PrivacyTypes == {"public", "private", "rule", "friends"}

ExpireAtValues == {0, 7, 1640995200, -5}

\* The decoded arguments a caller can supply, per tool.
ArgsOf(tool) ==
    CASE tool = "create_note" ->
            { [Paragraphs |-> ps, AutoPublish |-> ap, Tags |-> tg] :
                ps \in ParagraphLists, ap \in BOOLEAN,
                tg \in {NilSlice, MakeSlice, [nil |-> FALSE, items |-> <<"t1", "t2">>]} }
      [] tool = "edit_note" ->
            { [NoteID |-> "n-1", Paragraphs |-> ps] : ps \in ParagraphLists }
      [] tool = "set_note_privacy" ->
            { [NoteID |-> id, PrivacyType |-> ty, NoShare |-> ns, ExpireAt |-> ex] :
                id \in {"n-1", ""}, ty \in PrivacyTypes,
                ns \in {NilBool, Ptr(TRUE), Ptr(FALSE)},
                ex \in {NilInt64} \cup {Ptr(e) : e \in ExpireAtValues} }
      [] tool = "reset_api_key" -> { [none |-> TRUE] }
      [] tool = "upload_file" ->
            { [FilePath |-> "/tmp/a.png", FileType |-> ft, FileName |-> "a.png"] :
                ft \in {1, 3} }
      [] tool = "upload_file_via_url" ->
            { [FileURL |-> "https://x.y/a.png", FileType |-> ft, FileName |-> fn] :
                ft \in {1, 3}, fn \in {"", "a.png"} }

\* What the backend can answer on the generic request path.
GenericResponses ==
    { Response(200, BodyOK), Response(200, BodyNull), Response(200, BodyArray),
      Response(200, BodyInvalid), Response(200, BodyEmpty),
      Response(401, BodyUnauthorized), Response(500, BodyEmpty),
      Response(201, BodyOK), SendError("timeout"), ReadError(200, "unexpected EOF") }

FewResponses == { Response(200, BodyOK), Response(401, BodyUnauthorized), SendError("timeout") }

\* What the backend can answer to the prepare request of a local upload.
PrepareResponses ==
    { Response(200, b) :
        b \in {BodyPrepared, BodyDataString, BodyNoUploadURL, BodyUploadURLNumber,
               BodyNoFormData, BodyFormDataArray, BodyBadUploadURL, BodyNull,
               BodyArray, BodyInvalid, BodyOK} }
    \cup { Response(401, BodyUnauthorized), Response(500, BodyPrepared),
           SendError("timeout"), ReadError(200, "unexpected EOF") }

\* What the upload URL can answer to the multipart POST.
UploadResponses ==
    { Response(200, BodyOK), Response(200, BodyNull), Response(200, BodyInvalid),
      Response(204, BodyEmpty), Response(403, BodyUnauthorized),
      SendError("connection refused"), ReadError(200, "unexpected EOF") }

FileStates == {"ok", "missing", "denied", "unreadable"}

\* An invocation as it arrives: the tool, its raw arguments, the state of the
\* local file it names and the answers the backend will give to it.
Invocation(tool, raw, backend, file) ==
    [NoInvocation EXCEPT !.pc = "start", !.tool = tool, !.raw = raw,
                         !.backend = backend, !.file = file, !.upload = NoUpload]

Undecodable(tool) == [ok |-> FALSE, args |-> ZeroArgs(tool)]

Decodable(args) == [ok |-> TRUE, args |-> args]

InvocationValues ==
    { Invocation(t, Undecodable(t), <<Response(200, BodyOK)>>, "ok") : t \in Tools }
    \cup UNION { { Invocation(t, Decodable(a), <<r>>, "ok") :
                     a \in ArgsOf(t), r \in GenericResponses } :
                 t \in {"create_note", "edit_note", "reset_api_key", "upload_file_via_url"} }
    \cup { Invocation("set_note_privacy", Decodable(a), <<r>>, "ok") :
             a \in ArgsOf("set_note_privacy"), r \in FewResponses }
    \cup { Invocation("upload_file", Decodable(a), <<r1, r2>>, f) :
             a \in ArgsOf("upload_file"), r1 \in PrepareResponses,
             r2 \in UploadResponses, f \in FileStates }

\* Invocations that run side by side on the one client.
ConcurrentValues ==
    { Invocation("reset_api_key", Decodable([none |-> TRUE]), <<Response(200, BodyOK)>>, "ok"),
      Invocation("reset_api_key", Decodable([none |-> TRUE]),
                 <<Response(401, BodyUnauthorized)>>, "ok"),
      Invocation("create_note", Undecodable("create_note"), <<Response(200, BodyOK)>>, "ok"),
      Invocation("edit_note",
                 Decodable([NoteID |-> "n-1",
                            Paragraphs |-> <<Paragraph("note", NilSlice, "n-2", NilFile)>>]),
                 <<Response(200, BodyNull)>>, "ok"),
      Invocation("set_note_privacy",
                 Decodable([NoteID |-> "n-1", PrivacyType |-> "rule",
                            NoShare |-> Ptr(TRUE), ExpireAt |-> Ptr(0)]),
                 <<Response(200, BodyOK)>>, "ok"),
      Invocation("upload_file",
                 Decodable([FilePath |-> "/tmp/a.png", FileType |-> 1, FileName |-> "a.png"]),
                 <<Response(200, BodyPrepared), Response(200, BodyOK)>>, "ok"),
      Invocation("upload_file",
                 Decodable([FilePath |-> "/tmp/a.png", FileType |-> 1, FileName |-> "a.png"]),
                 <<Response(200, BodyPrepared), Response(403, BodyUnauthorized)>>, "ok"),
      Invocation("upload_file_via_url",
                 Decodable([FileURL |-> "https://x.y/a.png", FileType |-> 1, FileName |-> ""]),
                 <<SendError("timeout")>>, "ok") }

----------------------------------------------------------------------------
(* The server: every invocation runs its handler on the shared client.     *)

Finish(i, ret) ==
    [inv EXCEPT ![i].pc = "done", ![i].result = ret.result, ![i].err = ret.err]

\* The client method returned out = (result, err) to the handler, which
\* returns in its turn.
Return(i, out) ==
    [Finish(i, HandlerReturn(inv[i].tool, out)) EXCEPT ![i].clientErr = out.err]

\* The invocation is blocked in a call that takes time: an HTTP exchange or
\* the reading of the local file.
Suspended(i) == inv[i].pc \in {"await", "open", "await_upload"}

\* The caller's deadline passes or its cancellation fires while the
\* invocation is suspended: ctx.Done() is closed.
Cancel(i) ==
    /\ Suspended(i)
    /\ inv[i].ctx = "live"
    /\ inv' = [inv EXCEPT ![i].ctx = "cancelled"]
    /\ UNCHANGED <<client, convVars>>

\* Some invocation has reset the key and got the backend's confirmation.
ResetDone ==
    \E j \in Invocations :
        inv[j].pc = "done" /\ inv[j].tool = "reset_api_key" /\ ~inv[j].result.nil

\* A handler from its entry to the first httpClient.Do.  afterReset keeps,
\* for the record, whether a key reset had succeeded by then.
Handle(i) ==
    /\ inv[i].pc = "start"
    /\ LET tool == inv[i].tool
           d == VerifyAndUnmarshal(tool, inv[i].raw)
       IN  IF ~d.err.nil
           THEN inv' = Finish(i, [result |-> NilResult, err |-> d.err])
           ELSE inv' = [inv EXCEPT
                          ![i].pc = "await",
                          ![i].args = d.args,
                          ![i].afterReset = ResetDone,
                          ![i].sent = Append(@, makeRequestSend(client, "POST", Endpoint(tool),
                                                                RequestBody(tool, d.args)))]
    /\ UNCHANGED <<client, convVars>>

\* The answer to the one request of CreateNote, EditNote, SetNotePrivacy,
\* ResetAPIKey or UploadFileViaURL arrives and the handler returns.
ReceiveResponse(i) ==
    /\ inv[i].pc = "await"
    /\ inv[i].tool # "upload_file"
    /\ LET out == ClientReturn(inv[i].tool, Transport(inv[i].ctx, inv[i].backend[1]))
       IN  /\ inv' = Return(i, out)
           /\ client' = ClientAfter(client, inv[i].tool, out)
    /\ UNCHANGED convVars

\* The answer to the prepare request of UploadFile arrives.
ReceivePrepare(i) ==
    /\ inv[i].pc = "await"
    /\ inv[i].tool = "upload_file"
    /\ LET p == UploadFilePrepareReturn(Transport(inv[i].ctx, inv[i].backend[1]))
           out == [result |-> NilMap, err |-> p.err]
       IN  /\ IF ~p.err.nil
              THEN inv' = Return(i, out)
              ELSE inv' = [inv EXCEPT ![i].pc = "open", ![i].upload = p.upload]
           /\ client' = ClientAfter(client, inv[i].tool, out)
    /\ UNCHANGED convVars

\* UploadFile from os.Open to httpClient.Do of the multipart POST.
OpenAndSend(i) ==
    /\ inv[i].pc = "open"
    /\ LET opened == OpenFileError(inv[i].file)
           built == UploadBuildError(inv[i].file, inv[i].upload.uploadURL)
       IN  IF ~opened.nil
           THEN inv' = Return(i, [result |-> NilMap, err |-> opened])
           ELSE IF ~built.nil
           THEN inv' = Return(i, [result |-> NilMap, err |-> built])
           ELSE \E order \in Orders(DOMAIN FormFields(inv[i].upload.formData)) :
                  inv' = [inv EXCEPT
                            ![i].pc = "await_upload",
                            ![i].sent = Append(@, UploadRequest(client, inv[i].upload.uploadURL,
                                                                inv[i].upload.formData,
                                                                inv[i].args.FileName, order))]
    /\ UNCHANGED <<client, convVars>>

\* The answer to the multipart POST arrives and handleUploadFile returns.
ReceiveUpload(i) ==
    /\ inv[i].pc = "await_upload"
    /\ LET out == UploadFileUploadReturn(Transport(inv[i].ctx, inv[i].backend[2]))
       IN  /\ inv' = Return(i, out)
           /\ client' = ClientAfter(client, inv[i].tool, out)
    /\ UNCHANGED convVars

InitIdle ==
    /\ client = NewMowenClient
    /\ pc = "idle"
    /\ paragraphs = <<>>
    /\ texts = NilSlice
    /\ doc = ZeroAtom
    /\ content = NilSlice

\* One invocation at a time, over all the inputs.
InitServer ==
    /\ InitIdle
    /\ \E v \in InvocationValues :
          inv = [i \in Invocations |-> IF i = 1 THEN v ELSE NoInvocation]

\* Every slot holds an invocation; their steps interleave freely.
InitConcurrent ==
    /\ InitIdle
    /\ inv \in [Invocations -> ConcurrentValues]

NextServer ==
    \E i \in Invocations :
        \/ Handle(i)
        \/ ReceiveResponse(i)
        \/ ReceivePrepare(i)
        \/ OpenAndSend(i)
        \/ ReceiveUpload(i)
        \/ Cancel(i)

SpecServer == InitServer /\ [][NextServer]_vars

SpecConcurrent == InitConcurrent /\ [][NextServer]_vars

\* The steps of invocation i itself.
Step(i) ==
    \/ Handle(i)
    \/ ReceiveResponse(i)
    \/ ReceivePrepare(i)
    \/ OpenAndSend(i)
    \/ ReceiveUpload(i)

\* A handler that can take a step takes it: it runs on its own goroutine,
\* and every exchange ends within the Timeout of the http.Client, with an
\* answer or with an error.
SpecServerFair == SpecServer /\ \A i \in Invocations : WF_vars(Step(i))

\* The invocations that have returned.
Done(i) == inv[i].pc = "done"

----------------------------------------------------------------------------
(* Vocabulary of the server properties.                                    *)

\* The message of an error carries the given text.
Contains(err, text) == \E k \in DOMAIN err.msg : err.msg[k] = text

\* The transport delivered a response, and its status is not 200.
NonOK(resp) == resp.kind = "response" /\ resp.status # 200

\* A response with status 200 whose body is JSON text.
OKWithJSON(resp) == resp.kind = "response" /\ resp.status = 200 /\ Parse(resp.body).valid

Multipart(req) == req.body.kind = "multipart"

\* The prepare leg of a local upload goes through: the backend answers 200
\* with data.upload_url a string and data.form_data an object, and the
\* local file opens.
PrepareLegOK(x) ==
    /\ OKWithJSON(x.backend[1])
    /\ Has(Parse(x.backend[1].body).v, "data", "object")
    /\ Has(Parse(x.backend[1].body).v.kv["data"], "upload_url", "string")
    /\ Has(Parse(x.backend[1].body).v.kv["data"], "form_data", "object")
    /\ x.file \notin {"missing", "denied"}

----------------------------------------------------------------------------
(* C12: when the argument payload of a tool call cannot be decoded, the    *)
(* handler returns a nil result and an error whose message carries         *)
(* "invalid arguments", and the invocation sends no request at all.        *)

C12_DecodeErrorBeforeNetwork ==
    \A i \in Invocations :
        (inv[i].pc # "unused" /\ ~inv[i].raw.ok) =>
            /\ Len(inv[i].sent) = 0
            /\ Done(i) => /\ inv[i].result.nil
                          /\ ~inv[i].err.nil
                          /\ Contains(inv[i].err, "invalid arguments")

C12_Witness ==
    \E i \in Invocations :
        Done(i) /\ ~inv[i].raw.ok /\ inv[i].tool = "set_note_privacy"

----------------------------------------------------------------------------
(* C13: on the generic request path a response with a status other than    *)
(* 200 makes the operation fail with an error that carries the status code *)
(* and the raw body text, after exactly one request.                       *)

C13_Non200IsErrorWithStatusAndBody ==
    \A i \in Invocations :
        (Done(i) /\ inv[i].raw.ok /\ NonOK(inv[i].backend[1])) =>
            /\ inv[i].result.nil
            /\ ~inv[i].err.nil
            /\ Contains(inv[i].err, ToString(inv[i].backend[1].status))
            /\ Contains(inv[i].err, inv[i].backend[1].body)
            /\ Len(inv[i].sent) = 1

C13_Witness ==
    \E i \in Invocations :
        /\ Done(i)
        /\ inv[i].tool = "create_note"
        /\ inv[i].raw.ok
        /\ inv[i].backend[1] = Response(401, BodyUnauthorized)
        /\ Contains(inv[i].err, "401")

----------------------------------------------------------------------------
(* C14: in a local-file upload whose prepare leg fails (transport error,   *)
(* status other than 200, undecodable body, data, upload_url or form_data  *)
(* missing or of the wrong type, or the local file not opening) the        *)
(* operation returns an error and no multipart POST is ever sent.          *)

C14_PrepareFailureStopsUpload ==
    \A i \in Invocations :
        (inv[i].tool = "upload_file" /\ inv[i].raw.ok /\ ~PrepareLegOK(inv[i])) =>
            /\ \A k \in DOMAIN inv[i].sent : ~Multipart(inv[i].sent[k])
            /\ inv[i].pc # "await_upload"
            /\ Done(i) => inv[i].result.nil /\ ~inv[i].err.nil

C14_Witness ==
    \E i \in Invocations :
        /\ Done(i)
        /\ inv[i].tool = "upload_file"
        /\ inv[i].raw.ok
        /\ inv[i].backend[1] = Response(200, BodyNoUploadURL)
        /\ Len(inv[i].sent) = 1

----------------------------------------------------------------------------
(* C15: every failing sub-step of the local-file upload is reported with   *)
(* its own message, different from the message of every other sub-step,    *)
(* that names the step or the field at fault.                              *)

\* The body of a 200 response decodes into a map (a JSON null leaves it nil).
DecodesToMap(resp) ==
    Parse(resp.body).valid /\ Parse(resp.body).v.t \in {"object", "null"}

\* The first sub-step of the local-file upload that fails for invocation x,
\* read off the answers of the backend and the state of the local file.
FailedStep(x) ==
    LET r1 == x.backend[1]
        r2 == x.backend[2]
        v == Parse(r1.body).v
    IN  IF r1.kind # "response" \/ r1.status # 200 THEN "prepare request"
        ELSE IF ~DecodesToMap(r1) THEN "prepare response decoding"
        ELSE IF ~Has(v, "data", "object") THEN "data"
        ELSE IF ~Has(v.kv["data"], "upload_url", "string") THEN "upload_url"
        ELSE IF ~Has(v.kv["data"], "form_data", "object") THEN "form_data"
        ELSE IF x.file \in {"missing", "denied"} THEN "file open"
        ELSE IF x.file = "unreadable" THEN "file copy"
        ELSE IF v.kv["data"].kv["upload_url"].s = BadURL THEN "upload request creation"
        ELSE IF r2.kind = "send_error" THEN "upload transport"
        ELSE IF r2.kind = "read_error" THEN "upload response reading"
        ELSE IF r2.status # 200 THEN "upload status"
        ELSE IF ~DecodesToMap(r2) THEN "upload response decoding"
        ELSE "none"

\* The text by which each sub-step is named in an error.
StepMessage ==
    ("prepare request" :> "failed to prepare upload")
    @@ ("prepare response decoding" :> "failed to unmarshal prepare response")
    @@ ("data" :> "invalid prepare response format")
    @@ ("upload_url" :> "missing upload_url in prepare response")
    @@ ("form_data" :> "missing form_data in prepare response")
    @@ ("file open" :> "failed to open file")
    @@ ("file copy" :> "failed to copy file content")
    @@ ("upload request creation" :> "failed to create upload request")
    @@ ("upload transport" :> "failed to send upload request")
    @@ ("upload response reading" :> "failed to read upload response body")
    @@ ("upload status" :> "upload request failed with status")
    @@ ("upload response decoding" :> "failed to unmarshal upload response")

C15_DistinctMessagePerStep ==
    /\ \A s, t \in DOMAIN StepMessage : s # t => StepMessage[s] # StepMessage[t]
    /\ \A i \in Invocations :
          (Done(i) /\ inv[i].tool = "upload_file" /\ inv[i].raw.ok) =>
              IF FailedStep(inv[i]) = "none"
              THEN inv[i].err.nil
              ELSE /\ ~inv[i].err.nil
                   /\ Contains(inv[i].err, StepMessage[FailedStep(inv[i])])
                   /\ \A s \in DOMAIN StepMessage \ {FailedStep(inv[i])} :
                         ~Contains(inv[i].err, StepMessage[s])

C15_Witness ==
    \E i \in Invocations :
        /\ Done(i)
        /\ inv[i].tool = "upload_file"
        /\ inv[i].raw.ok
        /\ FailedStep(inv[i]) = "form_data"
        /\ Contains(inv[i].err, "missing form_data in prepare response")

----------------------------------------------------------------------------
(* C16: every request to the fixed base URL carries the header             *)
(* Authorization: Bearer <api key of the client>; the multipart POST to    *)
(* the upload URL the backend handed out carries no Authorization header.  *)

C16_BearerOnBaseURLOnly ==
    \A i \in Invocations :
        \A k \in DOMAIN inv[i].sent :
            LET req == inv[i].sent[k]
            IN  IF Multipart(req)
                THEN /\ req.url = <<inv[i].upload.uploadURL>>
                     /\ "Authorization" \notin DOMAIN req.header
                ELSE /\ req.url = <<MowenAPIBaseURL, Endpoint(inv[i].tool)>>
                     /\ "Authorization" \in DOMAIN req.header
                     /\ req.header["Authorization"] = <<"Bearer ", client.apiKey>>

C16_Witness ==
    \E i \in Invocations :
        /\ inv[i].tool = "upload_file"
        /\ Len(inv[i].sent) = 2
        /\ ~Multipart(inv[i].sent[1])
        /\ Multipart(inv[i].sent[2])

----------------------------------------------------------------------------
(* C17: an invocation ends either with a result and no error, after one    *)
(* answered round trip to the backend (two for the local-file upload) each *)
(* with status 200, or with no result and an error; a result never comes   *)
(* with, or after, a failed backend call.                                  *)

Rounds(tool) == IF tool = "upload_file" THEN 2 ELSE 1

Succeeded(resp) == resp.kind = "response" /\ resp.status = 200 /\ DecodesToMap(resp)

C17_SuccessOrSingleError ==
    \A i \in Invocations :
        Done(i) =>
            \/ /\ ~inv[i].result.nil
               /\ inv[i].err.nil
               /\ Len(inv[i].sent) = Rounds(inv[i].tool)
               /\ \A k \in 1..Rounds(inv[i].tool) : Succeeded(inv[i].backend[k])
            \/ /\ inv[i].result.nil
               /\ ~inv[i].err.nil
               /\ Len(inv[i].sent) <= Rounds(inv[i].tool)

C17_Witness ==
    \E i \in Invocations :
        /\ Done(i)
        /\ inv[i].tool = "upload_file"
        /\ ~inv[i].result.nil
        /\ Len(inv[i].sent) = 2

----------------------------------------------------------------------------
(* C18: the request of a set-privacy invocation has section 1, the         *)
(* caller's note id and the caller's privacy_type verbatim, whatever the   *)
(* string; it has a rule exactly when privacy_type is "rule", so no_share  *)
(* and expire_at given with another type are not sent; a supplied          *)
(* expire_at is sent as its decimal string.                                *)

\* The decimal numerals of the expiry timestamps the callers use.
DecimalOf ==
    (0 :> <<"0">>)
    @@ (7 :> <<"7">>)
    @@ (1640995200 :> <<"1", "6", "4", "0", "9", "9", "5", "2", "0", "0">>)
    @@ (-5 :> <<"-", "5">>)

\* Invocation i is a set-privacy call whose request has gone out.
SetPrivacySent(i) ==
    inv[i].tool = "set_note_privacy" /\ inv[i].raw.ok /\ Len(inv[i].sent) >= 1

\* The JSON text of the first request of invocation i.
SentJSON(i) == inv[i].sent[1].body.json

C18_SetPrivacyRequestShape ==
    \A i \in Invocations :
        SetPrivacySent(i) =>
            LET a == inv[i].raw.args
                j == SentJSON(i)
            IN  /\ Has(j, "section", "number") /\ j.kv["section"].n = 1
                /\ Has(j, "noteId", "string") /\ j.kv["noteId"].s = a.NoteID
                /\ Has(j, "settings", "object")
                /\ Has(j.kv["settings"], "privacy", "object")
                /\ LET p == j.kv["settings"].kv["privacy"]
                   IN  /\ Has(p, "type", "string") /\ p.kv["type"].s = a.PrivacyType
                       /\ ("rule" \in DOMAIN p.kv) <=> (a.PrivacyType = "rule")
                       /\ (a.PrivacyType = "rule" /\ ~a.ExpireAt.nil) =>
                              /\ Has(p.kv["rule"], "expireAt", "string")
                              /\ p.kv["rule"].kv["expireAt"].s = DecimalOf[a.ExpireAt.v]

C18_Witness ==
    \E i \in Invocations :
        /\ SetPrivacySent(i)
        /\ Done(i)
        /\ inv[i].raw.args.PrivacyType = "friends"
        /\ ~inv[i].raw.args.NoShare.nil
        /\ ~inv[i].raw.args.ExpireAt.nil
        /\ ~inv[i].result.nil

----------------------------------------------------------------------------
(* C19: under privacy_type "rule", a no_share or expire_at the caller did  *)
(* not supply is left out of the serialized rule, and a value the caller   *)
(* did supply is transmitted.                                              *)

\* Invocation i is a set-privacy call of type "rule" whose request went out
\* with a rule object in it.
RuleSent(i) ==
    /\ SetPrivacySent(i)
    /\ inv[i].raw.args.PrivacyType = "rule"
    /\ Has(SentJSON(i), "settings", "object")
    /\ Has(SentJSON(i).kv["settings"], "privacy", "object")
    /\ Has(SentJSON(i).kv["settings"].kv["privacy"], "rule", "object")

SentRule(i) == SentJSON(i).kv["settings"].kv["privacy"].kv["rule"]

\* C19 as stated: every supplied value is transmitted, the zero values
\* no_share=false and expire_at=0 included, so that the wire form tells an
\* absent field from a supplied zero.
C19_SuppliedZeroTransmitted ==
    \A i \in Invocations :
        RuleSent(i) =>
            /\ ("noShare" \in DOMAIN SentRule(i).kv) <=> ~inv[i].raw.args.NoShare.nil
            /\ ("expireAt" \in DOMAIN SentRule(i).kv) <=> ~inv[i].raw.args.ExpireAt.nil

\* C19 as amended: an absent field is left out; a supplied expire_at is
\* always transmitted, 0 as "0"; a supplied no_share is transmitted when it
\* is true and left out, like an absent one, when it is false.
C19_AbsentOmittedEmptyValueDropped ==
    \A i \in Invocations :
        (inv[i].tool = "set_note_privacy" /\ inv[i].raw.ok
         /\ inv[i].raw.args.PrivacyType = "rule" /\ Len(inv[i].sent) >= 1) =>
            /\ RuleSent(i)
            /\ LET a == inv[i].raw.args
                   r == SentRule(i)
               IN  /\ ("noShare" \in DOMAIN r.kv) <=> (~a.NoShare.nil /\ a.NoShare.v)
                   /\ ("noShare" \in DOMAIN r.kv) =>
                          r.kv["noShare"].t = "bool" /\ r.kv["noShare"].b
                   /\ ("expireAt" \in DOMAIN r.kv) <=> ~a.ExpireAt.nil
                   /\ ("expireAt" \in DOMAIN r.kv) =>
                          /\ r.kv["expireAt"].t = "string"
                          /\ r.kv["expireAt"].s = DecimalOf[a.ExpireAt.v]

C19_Witness ==
    \E i \in Invocations :
        /\ RuleSent(i)
        /\ inv[i].raw.args.NoShare = Ptr(FALSE)
        /\ inv[i].raw.args.ExpireAt = Ptr(0)
        /\ "noShare" \notin DOMAIN SentRule(i).kv
        /\ "expireAt" \in DOMAIN SentRule(i).kv

----------------------------------------------------------------------------
(* C20: with several invocations running at once on the one client, under  *)
(* every interleaving the requests and the outcome of an invocation are    *)
(* determined by its own arguments and its own backend answers, and the    *)
(* client is never written after its construction.                         *)

\* Two requests are the same but for the order of the plain fields of a
\* multipart body.
SameRequest(a, b) ==
    /\ a.method = b.method
    /\ a.url = b.url
    /\ a.header = b.header
    /\ a.body.kind = b.body.kind
    /\ IF Multipart(a)
       THEN /\ Len(a.body.parts) = Len(b.body.parts)
            /\ {a.body.parts[k] : k \in DOMAIN a.body.parts}
                  = {b.body.parts[k] : k \in DOMAIN b.body.parts}
       ELSE a.body = b.body

\* Two slots were given the same call and meet the same answers.
SameInputs(i, j) ==
    /\ inv[i].tool = inv[j].tool
    /\ inv[i].raw.ok = inv[j].raw.ok
    /\ inv[i].raw.args = inv[j].raw.args
    /\ inv[i].backend = inv[j].backend
    /\ inv[i].file = inv[j].file

C20_NoInterference ==
    /\ [][client' = client]_vars
    /\ [](\A i, j \in Invocations :
             (SameInputs(i, j) /\ inv[i].pc = inv[j].pc) =>
                 /\ Len(inv[i].sent) = Len(inv[j].sent)
                 /\ \A k \in 1..Len(inv[i].sent) :
                        k \in DOMAIN inv[j].sent /\ SameRequest(inv[i].sent[k], inv[j].sent[k])
                 /\ inv[i].result = inv[j].result
                 /\ inv[i].err = inv[j].err)

C20_Witness ==
    \E i, j \in Invocations :
        /\ i # j
        /\ SameInputs(i, j)
        /\ inv[i].tool = "reset_api_key"
        /\ Done(i) /\ Done(j)
        /\ ~inv[i].result.nil
        /\ client = NewMowenClient

----------------------------------------------------------------------------
(* C21: an invocation suspended in an HTTP call or in file I/O and the     *)
(* context of its caller.                                                  *)

\* Everything the invocation x asks of the backend and of the local file
\* goes through.
GoesThrough(x) ==
    IF x.tool = "upload_file" THEN FailedStep(x) = "none" ELSE Succeeded(x.backend[1])

\* C21 as stated: when the caller's deadline expires or its cancellation
\* fires while the invocation is suspended, the call in flight is aborted
\* and the invocation returns an error.
C21_CancelAborts ==
    \A i \in Invocations :
        (Done(i) /\ inv[i].ctx = "cancelled") => inv[i].result.nil /\ ~inv[i].err.nil

\* C21 as amended: the context of the caller does not reach the HTTP call;
\* an invocation whose context is cancelled while it is suspended runs on
\* and returns what the answers of the backend and the local file decide,
\* a result when they all go through, and never a cancellation error.
C21_ContextIgnored ==
    \A i \in Invocations :
        (Done(i) /\ inv[i].ctx = "cancelled") =>
            /\ inv[i].raw.ok
            /\ inv[i].err.nil <=> GoesThrough(inv[i])
            /\ inv[i].result.nil <=> ~GoesThrough(inv[i])
            /\ ~Contains(inv[i].err, "context canceled")

C21_Witness ==
    \E i \in Invocations :
        /\ Done(i)
        /\ inv[i].ctx = "cancelled"
        /\ inv[i].tool = "create_note"
        /\ ~inv[i].result.nil
        /\ inv[i].err.nil

----------------------------------------------------------------------------
(* C22: when the client returns an error to a handler, the handler returns *)
(* no result and an error made of the prefix of its operation followed by  *)
(* the client's message as it is, so that the deepest message is still in  *)
(* it; the handler sends nothing more.                                     *)

\* The prefix each operation puts before an error of the client.
OperationPrefix ==
    ("create_note" :> "failed to create note")
    @@ ("edit_note" :> "failed to edit note")
    @@ ("set_note_privacy" :> "failed to set note privacy")
    @@ ("reset_api_key" :> "failed to reset API key")
    @@ ("upload_file" :> "failed to upload file")
    @@ ("upload_file_via_url" :> "failed to upload file via URL")

\* The local upload of x got as far as sending the multipart POST.
ReachesUploadLeg(x) ==
    x.tool = "upload_file"
    /\ FailedStep(x) \in {"upload transport", "upload response reading", "upload status",
                          "upload response decoding", "none"}

C22_HandlerWrapsClientError ==
    \A i \in Invocations :
        (Done(i) /\ ~inv[i].clientErr.nil) =>
            /\ inv[i].result.nil
            /\ ~inv[i].err.nil
            /\ inv[i].err.msg = <<OperationPrefix[inv[i].tool]>> \o inv[i].clientErr.msg
            /\ Len(inv[i].clientErr.msg) >= 1
            /\ Contains(inv[i].err, inv[i].clientErr.msg[Len(inv[i].clientErr.msg)])
            /\ NonOK(inv[i].backend[1]) =>
                   /\ Contains(inv[i].err, ToString(inv[i].backend[1].status))
                   /\ Contains(inv[i].err, inv[i].backend[1].body)
            /\ Len(inv[i].sent) = IF ReachesUploadLeg(inv[i]) THEN 2 ELSE 1

C22_Witness ==
    \E i \in Invocations :
        /\ Done(i)
        /\ inv[i].tool = "edit_note"
        /\ ~inv[i].clientErr.nil
        /\ inv[i].backend[1] = Response(401, BodyUnauthorized)
        /\ inv[i].err.msg[1] = "failed to edit note"

----------------------------------------------------------------------------
(* C23: a Create request built from the caller's arguments, serialized to  *)
(* JSON and decoded back, has the same body.type, settings.autoPublish and *)
(* settings.tags.                                                          *)

\* Invocation i is a create call whose request has gone out.
CreateSent(i) == inv[i].tool = "create_note" /\ inv[i].raw.ok /\ Len(inv[i].sent) >= 1

\* The request the handler built, and what its JSON text decodes to.
Built(i) == RequestBody("create_note", inv[i].raw.args).value

Decoded(i) == UnmarshalNoteCreateRequest(SentJSON(i))

\* C23 as stated: the tag list comes back the same, an empty one included.
C23_RoundTripExact ==
    \A i \in Invocations :
        CreateSent(i) =>
            /\ Decoded(i).Body.Type = Built(i).Body.Type
            /\ Decoded(i).Settings.AutoPublish = Built(i).Settings.AutoPublish
            /\ Decoded(i).Settings.Tags = Built(i).Settings.Tags

\* C23 as amended: the tags come back the same in number, order and value;
\* a list without tags, nil or empty, comes back as the nil list.
C23_RoundTripUpToNil ==
    \A i \in Invocations :
        CreateSent(i) =>
            /\ Decoded(i).Body.Type = Built(i).Body.Type
            /\ Decoded(i).Body.Type = "doc"
            /\ Decoded(i).Settings.AutoPublish = Built(i).Settings.AutoPublish
            /\ Decoded(i).Settings.AutoPublish = inv[i].raw.args.AutoPublish
            /\ Decoded(i).Settings.Tags.items = inv[i].raw.args.Tags.items
            /\ Decoded(i).Settings.Tags.nil <=> Len(inv[i].raw.args.Tags.items) = 0

C23_Witness ==
    \E i \in Invocations :
        /\ CreateSent(i)
        /\ inv[i].raw.args.Tags = MakeSlice
        /\ inv[i].raw.args.AutoPublish
        /\ Decoded(i).Settings.Tags = NilSlice
        /\ Decoded(i).Settings.AutoPublish

----------------------------------------------------------------------------
(* C24: the request of the reset-key operation.                            *)

\* Invocation i is a reset-key call whose request has gone out.
ResetSent(i) == inv[i].tool = "reset_api_key" /\ inv[i].raw.ok /\ Len(inv[i].sent) >= 1

\* C24 as stated: the reset-key operation sends its POST to the key-reset
\* endpoint with no payload body.
C24_ResetWithoutBody ==
    \A i \in Invocations :
        ResetSent(i) =>
            /\ inv[i].sent[1].method = "POST"
            /\ inv[i].sent[1].url = <<MowenAPIBaseURL, KeyResetEndpoint>>
            /\ inv[i].sent[1].body.nil

\* C24 as amended: the reset-key operation sends its POST to the key-reset
\* endpoint with a JSON body, the object without members.
C24_ResetWithEmptyObject ==
    \A i \in Invocations :
        ResetSent(i) =>
            /\ Len(inv[i].sent) = 1
            /\ inv[i].sent[1].method = "POST"
            /\ inv[i].sent[1].url = <<MowenAPIBaseURL, KeyResetEndpoint>>
            /\ ~inv[i].sent[1].body.nil
            /\ inv[i].sent[1].body.kind = "json"
            /\ inv[i].sent[1].body.json.t = "object"
            /\ DOMAIN inv[i].sent[1].body.json.kv = {}
            /\ inv[i].sent[1].header["Content-Type"] = <<"application/json">>

C24_Witness ==
    \E i \in Invocations :
        /\ ResetSent(i)
        /\ Done(i)
        /\ ~inv[i].result.nil
        /\ ~inv[i].sent[1].body.nil

----------------------------------------------------------------------------
(* C25: every invocation ends, with a result or an error: each HTTP call   *)
(* gets an answer or fails within the fixed timeout of the client, and a   *)
(* call that timed out or failed in transport is reported as an error      *)
(* after that one attempt.                                                 *)

\* The exchange that failed in transport for the finished invocation x, as
\* its position among the requests of x; 0 when none did.
FailedExchange(x) ==
    IF x.backend[1].kind = "send_error" THEN 1
    ELSE IF ReachesUploadLeg(x) /\ x.backend[2].kind = "send_error" THEN 2
    ELSE 0

C25_TerminatesAfterOneAttempt ==
    /\ \A i \in Invocations : (inv[i].pc = "start") ~> Done(i)
    /\ [](\A i \in Invocations :
             (Done(i) /\ inv[i].raw.ok /\ FailedExchange(inv[i]) # 0) =>
                 /\ inv[i].result.nil
                 /\ ~inv[i].err.nil
                 /\ Contains(inv[i].err, inv[i].backend[FailedExchange(inv[i])].cause)
                 /\ Len(inv[i].sent) = FailedExchange(inv[i]))
    /\ [](\A i \in Invocations : Done(i) => (inv[i].result.nil <=> ~inv[i].err.nil))

C25_Witness ==
    \E i \in Invocations :
        /\ Done(i)
        /\ inv[i].tool = "upload_file"
        /\ FailedExchange(inv[i]) = 2
        /\ inv[i].backend[2] = SendError("connection refused")
        /\ Contains(inv[i].err, "failed to send upload request")

----------------------------------------------------------------------------
(* C26: a local-file upload goes one way through NotStarted, Prepared and  *)
(* Uploaded, with Failed reachable until it has ended: at most one prepare *)
(* request and at most one multipart POST are sent, the POST only after a  *)
(* prepare answer of status 200 with a valid upload_url and form_data, and *)
(* nothing is sent once Uploaded or Failed is reached.                     *)

\* The prepare answer has status 200 and carries data.upload_url as a
\* string and data.form_data as an object.
PrepareAnswerValid(resp) ==
    /\ OKWithJSON(resp)
    /\ Has(Parse(resp.body).v, "data", "object")
    /\ Has(Parse(resp.body).v.kv["data"], "upload_url", "string")
    /\ Has(Parse(resp.body).v.kv["data"], "form_data", "object")

Phase(x) ==
    IF x.pc \in {"start", "await"} THEN "NotStarted"
    ELSE IF x.pc \in {"open", "await_upload"} THEN "Prepared"
    ELSE IF x.result.nil THEN "Failed"
    ELSE "Uploaded"

Rank(x) == IF Phase(x) = "NotStarted" THEN 0 ELSE IF Phase(x) = "Prepared" THEN 1 ELSE 2

IsUpload(i) == inv[i].tool = "upload_file" /\ inv[i].raw.ok

C26_UploadForwardOnly ==
    /\ [](\A i \in Invocations :
             IsUpload(i) =>
                 /\ Len(inv[i].sent) <= 2
                 /\ Len(inv[i].sent) >= 1 =>
                        /\ ~Multipart(inv[i].sent[1])
                        /\ inv[i].sent[1].url = <<MowenAPIBaseURL, UploadPrepareEndpoint>>
                 /\ Len(inv[i].sent) = 2 =>
                        /\ Multipart(inv[i].sent[2])
                        /\ PrepareAnswerValid(inv[i].backend[1])
                        /\ Phase(inv[i]) # "NotStarted"
                 /\ Phase(inv[i]) = "Prepared" => PrepareAnswerValid(inv[i].backend[1])
                 /\ Phase(inv[i]) = "Uploaded" => Len(inv[i].sent) = 2)
    /\ [][\A i \in Invocations :
             IsUpload(i) =>
                 /\ Rank(inv'[i]) >= Rank(inv[i])
                 /\ Len(inv'[i].sent) >= Len(inv[i].sent)
                 /\ Rank(inv[i]) = 2 => inv'[i] = inv[i]]_vars

C26_Witness ==
    \E i \in Invocations :
        /\ IsUpload(i)
        /\ Phase(inv[i]) = "Failed"
        /\ Len(inv[i].sent) = 2
        /\ NonOK(inv[i].backend[2])

----------------------------------------------------------------------------
(* C27: in the multipart body of a local-file upload every form_data entry *)
(* whose value is a string is written as a plain field with its key and    *)
(* value, every other entry is skipped without error, and the field "file" *)
(* with the caller's file name comes after all the plain fields.           *)

\* The form_data object of the prepare answer given to invocation i.
FormDataOf(i) == Parse(inv[i].backend[1].body).v.kv["data"].kv["form_data"]

C27_MultipartBody ==
    \A i \in Invocations :
        (IsUpload(i) /\ Len(inv[i].sent) = 2) =>
            /\ PrepareAnswerValid(inv[i].backend[1])
            /\ Multipart(inv[i].sent[2])
            /\ LET parts == inv[i].sent[2].body.parts
                   n == Len(parts)
                   fd == FormDataOf(i).kv
               IN  /\ n >= 1
                   /\ parts[n].kind = "file"
                   /\ parts[n].name = "file"
                   /\ parts[n].filename = inv[i].raw.args.FileName
                   /\ \A k \in 1..(n - 1) :
                         /\ parts[k].kind = "field"
                         /\ parts[k].name \in DOMAIN fd
                         /\ fd[parts[k].name].t = "string"
                         /\ parts[k].value = fd[parts[k].name].s
                   /\ \A key \in DOMAIN fd :
                         Cardinality({k \in 1..(n - 1) : parts[k].name = key})
                            = IF fd[key].t = "string" THEN 1 ELSE 0

C27_Witness ==
    \E i \in Invocations :
        /\ IsUpload(i)
        /\ Len(inv[i].sent) = 2
        /\ inv[i].backend[1].body = BodyPrepared
        /\ Len(inv[i].sent[2].body.parts) = 3
        /\ inv[i].sent[2].body.parts[1].name = "policy"
        /\ inv[i].sent[2].body.parts[2].name = "key"
        /\ Done(i)
        /\ inv[i].err.nil

----------------------------------------------------------------------------
(* C28: the api key of the client never changes after construction, not    *)
(* even when ResetAPIKey succeeds: every request sent after a successful   *)
(* reset still carries the key the client was constructed with.            *)

\* The request invocation j sends in this step, if it sends one.
Sends(j) == Len(inv'[j].sent) > Len(inv[j].sent)

LastSent(x) == x.sent[Len(x.sent)]

C28_KeyKeptAfterReset ==
    /\ [](client.apiKey = EnvAPIKey)
    /\ [][client'.apiKey = client.apiKey]_vars
    /\ [][\A j \in Invocations :
            (ResetDone /\ Sends(j) /\ ~Multipart(LastSent(inv'[j]))) =>
                /\ "Authorization" \in DOMAIN LastSent(inv'[j]).header
                /\ LastSent(inv'[j]).header["Authorization"] = <<"Bearer ", EnvAPIKey>>]_vars

C28_Witness ==
    \E i, j \in Invocations :
        /\ i # j
        /\ inv[i].tool = "reset_api_key"
        /\ Done(i)
        /\ ~inv[i].result.nil
        /\ inv[j].afterReset
        /\ Len(inv[j].sent) >= 1
        /\ inv[j].sent[1].header["Authorization"] = <<"Bearer ", EnvAPIKey>>

----------------------------------------------------------------------------
(* C29: in a local-file upload the local file is opened only after the     *)
(* prepare request returned a valid answer: the upload of a file that does *)
(* not exist or cannot be opened still sends exactly one prepare request,  *)
(* then fails with the file-open error and leaves the prepared slot        *)
(* unused; the local file is never written.                                *)

CannotOpen(x) == x.file \in {"missing", "denied"}

C29_FileOpenedAfterPrepare ==
    /\ [](\A i \in Invocations :
             IsUpload(i) =>
                 /\ inv[i].pc \in {"open", "await_upload"} =>
                        PrepareAnswerValid(inv[i].backend[1])
                 /\ (Done(i) /\ CannotOpen(inv[i])) =>
                        /\ Len(inv[i].sent) = 1
                        /\ inv[i].sent[1].url = <<MowenAPIBaseURL, UploadPrepareEndpoint>>
                        /\ \A k \in DOMAIN inv[i].sent : ~Multipart(inv[i].sent[k])
                        /\ inv[i].result.nil
                        /\ Contains(inv[i].err, "failed to open file")
                              <=> PrepareAnswerValid(inv[i].backend[1]))
    /\ [][\A i \in Invocations : inv'[i].file = inv[i].file]_vars

C29_Witness ==
    \E i \in Invocations :
        /\ IsUpload(i)
        /\ Done(i)
        /\ inv[i].file = "denied"
        /\ PrepareAnswerValid(inv[i].backend[1])
        /\ Len(inv[i].sent) = 1
        /\ Contains(inv[i].err, "open: permission denied")

----------------------------------------------------------------------------
(* C30: an answer of status 200 whose body is not a JSON object, on the    *)
(* generic path and on both legs of the local-file upload.                 *)

Answer200(resp) == resp.kind = "response" /\ resp.status = 200

IsObject(resp) == Parse(resp.body).valid /\ Parse(resp.body).v.t = "object"

IsNull(resp) == Parse(resp.body).valid /\ Parse(resp.body).v.t = "null"

\* The finished invocation x got the answer at position k of its backend.
Answered(x, k) == x.pc = "done" /\ x.raw.ok /\ Len(x.sent) >= k /\ Answer200(x.backend[k])

\* The message with which the leg k of tool reports a body it cannot decode.
UnmarshalMessage(tool, k) ==
    IF tool # "upload_file" THEN "failed to unmarshal response"
    ELSE IF k = 1 THEN "failed to unmarshal prepare response"
    ELSE "failed to unmarshal upload response"

\* The last answer a finished invocation of tool needs is the one at k.
LastLeg(tool, k) == k = Rounds(tool)

\* C30 as stated: a 200 answer whose body is not a JSON object makes the
\* operation return the unmarshal error of its leg, never a success.
C30_NonObjectIsUnmarshalError ==
    \A i \in Invocations : \A k \in {1, 2} :
        (k <= Rounds(inv[i].tool) /\ Answered(inv[i], k) /\ ~IsObject(inv[i].backend[k])) =>
            /\ inv[i].result.nil
            /\ ~inv[i].err.nil
            /\ Contains(inv[i].err, UnmarshalMessage(inv[i].tool, k))

\* C30 as amended: a 200 answer whose body is neither a JSON object nor the
\* JSON null makes the operation return the unmarshal error of its leg; a
\* body null is decoded without error into the nil mapping, which the
\* prepare leg rejects as an invalid prepare response and the generic path
\* and the upload leg return as a success.
C30_NonObjectButNullIsError ==
    \A i \in Invocations : \A k \in {1, 2} :
        (k <= Rounds(inv[i].tool) /\ Answered(inv[i], k) /\ ~IsObject(inv[i].backend[k])) =>
            IF ~IsNull(inv[i].backend[k])
            THEN /\ inv[i].result.nil
                 /\ ~inv[i].err.nil
                 /\ Contains(inv[i].err, UnmarshalMessage(inv[i].tool, k))
            ELSE IF LastLeg(inv[i].tool, k)
            THEN /\ inv[i].err.nil
                 /\ ~inv[i].result.nil
                 /\ Len(inv[i].result.text) = 2
                 /\ inv[i].result.text[2].nil
            ELSE /\ inv[i].result.nil
                 /\ Contains(inv[i].err, "invalid prepare response format")
                 /\ ~Contains(inv[i].err, UnmarshalMessage(inv[i].tool, k))

C30_Witness ==
    \E i \in Invocations :
        /\ inv[i].tool = "upload_file"
        /\ Answered(inv[i], 2)
        /\ IsNull(inv[i].backend[2])
        /\ ~inv[i].result.nil
        /\ inv[i].result.text[2].nil

====
